---- MODULE Spec2Model ----
(***************************************************************************)
(* A state-machine model of the colour quantisation library: the CPU       *)
(* octree reducer, the k-means pipeline and its read-backs, and the        *)
(* palette / find / reduce operations composed from them.                  *)
(*                                                                         *)
(* Working-space values are fixed-point: a channel value c of an 8-bit     *)
(* pixel is the working value c * SubUnit (the float c / 255 in the code,  *)
(* ColorSpace::Rgb), so that a mean of pixels is generally not an 8-bit    *)
(* value and the conversion back rounds.                                   *)
(***************************************************************************)
EXTENDS Integers, Sequences, FiniteSets, TLC

\* ---------------------------------------------------------------- bounds
MaxPixels == 3
MaxK == 3
SubUnit == 4
MaxWidth == 140
MaxList == 2
MaxSide == 2
MaxBatchK == 70
MaxThreads == 2

\* ------------------------------------------------------ program constants
MAX_DEPTH == 8
MAX_ITERATION == 128
MAX_ITERATION_BEFORE_CONVERGENCE_CHECK == 8
MAX_OBS_CHAIN == 64
MAX_OPERATIONS_CHAIN == 32

\* Option::None of a parent, of a child slot, of a draw not made yet.
None == -1

\* ---------------------------------------------------------------- helpers
Min(a, b) == IF a <= b THEN a ELSE b

Max(a, b) == IF a >= b THEN a ELSE b

RECURSIVE Pow2(_)
Pow2(n) == IF n = 0 THEN 1 ELSE 2 * Pow2(n - 1)

RECURSIVE SumSeq(_)
SumSeq(s) == IF s = <<>> THEN 0 ELSE Head(s) + SumSeq(Tail(s))

Range(s) == {s[i] : i \in DOMAIN s}

SeqsUpTo(S, n) == UNION {[1..m -> S] : m \in 1..n}

\* Vec::remove(position) and Vec::insert(position, x), positions from 0.
RemoveAt(s, position) == SubSeq(s, 1, position) \o SubSeq(s, position + 2, Len(s))

InsertAt(s, position, x) == SubSeq(s, 1, position) \o <<x>> \o SubSeq(s, position + 1, Len(s))

\* ================================================================ octree

\* One bit per channel at the given level, red the most significant.
Bit(c, level) == (c \div Pow2(7 - level)) % 2

get_color_index(color, level) ==
    4 * Bit(color[1], level) + 2 * Bit(color[2], level) + Bit(color[3], level)

ColorAccumulator_new == [pixel_count |-> 0, r |-> 0, g |-> 0, b |-> 0]

\* AddAssign<&[u8; 4]>: alpha is not accumulated.
AccAddColor(acc, rhs) ==
    [pixel_count |-> acc.pixel_count + 1,
     r |-> acc.r + rhs[1], g |-> acc.g + rhs[2], b |-> acc.b + rhs[3]]

\* An addition that keeps the pixel count of the left side.
AccAddChannels(acc, rhs) ==
    [pixel_count |-> acc.pixel_count,
     r |-> acc.r + rhs.r, g |-> acc.g + rhs.g, b |-> acc.b + rhs.b]

\* AddAssign<ColorAccumulator>.
AccAdd(acc, rhs) ==
    [pixel_count |-> acc.pixel_count + rhs.pixel_count,
     r |-> acc.r + rhs.r, g |-> acc.g + rhs.g, b |-> acc.b + rhs.b]

output_color(acc) ==
    << (acc.r \div acc.pixel_count) % 256,
       (acc.g \div acc.pixel_count) % 256,
       (acc.b \div acc.pixel_count) % 256,
       255 >>

NoChildren == [i \in 1..8 |-> None]

Node_root(node_id) ==
    [level |-> 0, node_id |-> node_id, color_index |-> 0, parent |-> None,
     children |-> NoChildren, child_count |-> 0, accumulator |-> ColorAccumulator_new]

Node_with_parent(node_id, parent_node_id, color_index, level) ==
    [level |-> level, node_id |-> node_id, color_index |-> color_index,
     parent |-> parent_node_id, children |-> NoChildren, child_count |-> 0,
     accumulator |-> ColorAccumulator_new]

ColorTree_new == << Node_root(0) >>

\* The arena is a sequence; node id i is its element i + 1.
RECURSIVE Descend(_, _, _, _)
Descend(ns, root_id, color, level) ==
    IF level >= MAX_DEPTH
    THEN [nodes |-> ns, leaf |-> root_id]
    ELSE LET color_index == get_color_index(color, level)
             new_node_id == Len(ns)
             ns1 == IF ns[root_id + 1].children[color_index + 1] = None
                    THEN Append(
                           [ns EXCEPT ![root_id + 1].children[color_index + 1] = new_node_id,
                                      ![root_id + 1].child_count = @ + 1],
                           Node_with_parent(new_node_id, root_id, color_index, level))
                    ELSE ns
         IN Descend(ns1, ns1[root_id + 1].children[color_index + 1], color, level + 1)

\* The colour accumulated where the walk starts.
AddTargetRoot(d) == 0

\* The node the colour is accumulated in: the one the walk ends on.
AddTarget(d) == d.leaf

add_color(ns, color) ==
    LET d == Descend(ns, 0, color, 0)
    IN [d.nodes EXCEPT ![AddTarget(d) + 1].accumulator = AccAddColor(@, color)]

\* Node::partial_cmp as -1 (Less), 0 (Equal), 1 (Greater).
Cmp(a, b) == IF a < b THEN -1 ELSE IF a > b THEN 1 ELSE 0

NodeCmp(self, other) ==
    IF self.node_id = other.node_id THEN 0
    ELSE IF self.child_count # other.child_count
         THEN Cmp(self.child_count, other.child_count)
         ELSE LET ac == self.accumulator.pixel_count \div Pow2(self.level)
                  bc == other.accumulator.pixel_count \div Pow2(other.level)
              IN IF ac # bc THEN Cmp(ac, bc) ELSE Cmp(self.node_id, other.node_id)

\* leaves.sort_by(|a, b| a.cmp(b).reverse()): greatest first.  The order is
\* total on distinct ids, so the sorted sequence is unique.
RECURSIVE SortLeaves(_, _)
SortLeaves(ns, ids) ==
    IF ids = {} THEN <<>>
    ELSE LET top == CHOOSE i \in ids :
                      \A j \in ids : NodeCmp(ns[i + 1], ns[j + 1]) >= 0
         IN <<top>> \o SortLeaves(ns, ids \ {top})

CollectLeaves(ns) ==
    SortLeaves(ns, {i \in 0..(Len(ns) - 1) : ns[i + 1].accumulator.pixel_count > 0})

\* binary_search_by(|probe| parent.cmp(probe)) over the deque, positions
\* from 0: [found |-> TRUE, position] is Ok(position), FALSE is Err(position).
RECURSIVE BinarySearch(_, _, _, _, _)
BinarySearch(ns, lv, parent, left, right) ==
    IF left >= right THEN [found |-> FALSE, position |-> left]
    ELSE LET mid == left + (right - left) \div 2
             c == NodeCmp(parent, ns[lv[mid + 1] + 1])
         IN IF c = -1 THEN BinarySearch(ns, lv, parent, mid + 1, right)
            ELSE IF c = 1 THEN BinarySearch(ns, lv, parent, left, mid)
            ELSE [found |-> TRUE, position |-> mid]

\* A search that always answers Err(0).
binary_search_front(ns, lv, parent) == [found |-> FALSE, position |-> 0]

binary_search_by(ns, lv, parent) == BinarySearch(ns, lv, parent, 0, Len(lv))

\* The loop of reduce stopping one node early.
ReduceContinueAbove(lv, color_count) == Len(lv) > color_count + 1

\* The loop of reduce going one node further.
ReduceContinueDownTo(lv, color_count) == Len(lv) >= color_count

\* The loop condition of reduce.
ReduceContinue(lv, color_count) == Len(lv) > color_count

\* One iteration of the while loop of reduce: [nodes, leaves].
ReduceStep(ns, lv) ==
    LET node_id == lv[Len(lv)]
        popped == SubSeq(lv, 1, Len(lv) - 1)
        node == ns[node_id + 1]
        color_index == node.color_index
        parent_id == node.parent
    IN IF parent_id = None THEN [nodes |-> ns, leaves |-> popped]
       ELSE LET s1 == binary_search_by(ns, popped, ns[parent_id + 1])
                lv1 == IF s1.found THEN RemoveAt(popped, s1.position) ELSE popped
                ns1 == [ns EXCEPT
                          ![parent_id + 1].accumulator = AccAdd(@, node.accumulator),
                          ![parent_id + 1].child_count = @ - 1,
                          ![parent_id + 1].children[color_index + 1] = None,
                          ![node_id + 1].parent = None]
                s2 == binary_search_by(ns1, lv1, ns1[parent_id + 1])
                lv2 == IF s2.found THEN lv1 ELSE InsertAt(lv1, s2.position, parent_id)
            IN [nodes |-> ns1, leaves |-> lv2]

\* [u8; 4] ordering of palette.sort(): lexicographic on r, g, b, a.
RECURSIVE LexLess(_, _)
LexLess(a, b) ==
    IF a = <<>> THEN FALSE
    ELSE IF Head(a) # Head(b) THEN Head(a) < Head(b)
    ELSE LexLess(Tail(a), Tail(b))

PaletteOrder(a, b) == LexLess(a, b)

\* palette.sort(): insertion into a sequence sorted by PaletteOrder (stable).
RECURSIVE InsertSorted(_, _)
InsertSorted(s, x) ==
    IF s = <<>> THEN <<x>>
    ELSE IF PaletteOrder(x, Head(s)) THEN <<x>> \o s
    ELSE <<Head(s)>> \o InsertSorted(Tail(s), x)

RECURSIVE SortPalette(_)
SortPalette(s) ==
    IF s = <<>> THEN <<>>
    ELSE InsertSorted(SortPalette(SubSeq(s, 1, Len(s) - 1)), s[Len(s)])

\* Vec::dedup: drops consecutive repeats.
RECURSIVE Dedup(_)
Dedup(s) ==
    IF Len(s) <= 1 THEN s
    ELSE IF s[1] = s[2] THEN Dedup(Tail(s))
    ELSE <<s[1]>> \o Dedup(Tail(s))

\* The tail of reduce: the remaining nodes' colours, sorted and deduplicated.
ReducePalette(ns, lv) ==
    Dedup(SortPalette([i \in 1..Len(lv) |-> output_color(ns[lv[i] + 1].accumulator)]))

\* ===================================================== colours and kernels

\* The 8-bit pixels the inputs are drawn from: near-black neighbours that
\* fall into one cluster, the extremes, a mid grey-blue and a non-opaque one.
Colours ==
    { <<0, 0, 0, 255>>, <<1, 0, 0, 255>>, <<0, 1, 0, 255>>,
      <<10, 20, 30, 255>>, <<255, 255, 255, 255>>, <<255, 255, 255, 128>> }

OpaqueColours == {c \in Colours : c[4] = 255}

\* sRGB transfer function of into_format / into_color, times 10^5, by
\* 8-bit channel value.
SrgbToLinear ==
    <<
       0, 30, 61, 91, 121, 152, 182, 212, 243, 273, 304, 335,
       368, 402, 439, 478, 518, 561, 605, 651, 700, 750, 802, 857,
       913, 972, 1033, 1096, 1161, 1229, 1298, 1370, 1444, 1521, 1600, 1681,
       1764, 1850, 1938, 2029, 2122, 2217, 2315, 2416, 2519, 2624, 2732, 2843,
       2956, 3071, 3190, 3310, 3434, 3560, 3689, 3820, 3955, 4092, 4231, 4374,
       4519, 4667, 4817, 4971, 5127, 5286, 5448, 5613, 5781, 5951, 6125, 6301,
       6480, 6663, 6848, 7036, 7227, 7421, 7619, 7819, 8022, 8228, 8438, 8650,
       8866, 9084, 9306, 9531, 9759, 9990, 10224, 10462, 10702, 10946, 11193, 11444,
       11697, 11954, 12214, 12477, 12744, 13014, 13287, 13563, 13843, 14126, 14413, 14703,
       14996, 15293, 15593, 15896, 16203, 16513, 16827, 17144, 17465, 17789, 18116, 18447,
       18782, 19120, 19462, 19807, 20156, 20508, 20864, 21223, 21586, 21953, 22323, 22697,
       23074, 23455, 23840, 24228, 24620, 25016, 25415, 25818, 26225, 26636, 27050, 27468,
       27889, 28315, 28744, 29177, 29614, 30054, 30499, 30947, 31399, 31855, 32314, 32778,
       33245, 33716, 34191, 34670, 35153, 35640, 36131, 36625, 37124, 37626, 38133, 38643,
       39157, 39676, 40198, 40724, 41254, 41789, 42327, 42869, 43415, 43966, 44520, 45079,
       45641, 46208, 46778, 47353, 47932, 48515, 49102, 49693, 50289, 50888, 51492, 52100,
       52712, 53328, 53948, 54572, 55201, 55834, 56471, 57112, 57758, 58408, 59062, 59720,
       60383, 61050, 61721, 62396, 63076, 63760, 64448, 65141, 65837, 66539, 67244, 67954,
       68669, 69387, 70110, 70838, 71569, 72306, 73046, 73791, 74540, 75294, 76052, 76815,
       77582, 78354, 79130, 79910, 80695, 81485, 82279, 83077, 83880, 84687, 85499, 86316,
       87137, 87962, 88792, 89627, 90466, 91310, 92158, 93011, 93869, 94731, 95597, 96469,
       97345, 98225, 99110, 100000 >>

\* Lab lightness is a strictly increasing function of the relative
\* luminance Y; two colours compare by L as they compare by Y.
lab_l(c) ==
    2126 * SrgbToLinear[c[1] + 1] + 7152 * SrgbToLinear[c[2] + 1] + 722 * SrgbToLinear[c[3] + 1]

\* a.l.partial_cmp(&b.l) of the k-means palette sort.
LightnessOrder(a, b) == lab_l(a) < lab_l(b)

RECURSIVE InsertByLightness(_, _)
InsertByLightness(s, x) ==
    IF s = <<>> THEN <<x>>
    ELSE IF LightnessOrder(x, Head(s)) THEN <<x>> \o s
    ELSE <<Head(s)>> \o InsertByLightness(Tail(s), x)

RECURSIVE sort_unstable_by(_)
sort_unstable_by(s) ==
    IF s = <<>> THEN <<>>
    ELSE InsertByLightness(sort_unstable_by(SubSeq(s, 1, Len(s) - 1)), s[Len(s)])

\* 1.0 in working units.
One == 255 * SubUnit

\* f32 -> u8 of into_format and of a store to an Rgba8Unorm texture:
\* scale, round to nearest, clamp.
ToU8(w) == Min(255, Max(0, (w + SubUnit \div 2) \div SubUnit))

\* ColorConverter (rgb8u_to_rgb32f): the working pixel carries the 1.0
\* sentinel in its fourth component.
ColorConverter(input) ==
    [p \in 1..Len(input) |->
        <<input[p][1] * SubUnit, input[p][2] * SubUnit, input[p][3] * SubUnit, One>>]

\* ColorReverter (rgb32f_to_rgb8u): binds the working texture and the
\* output texture only.
ColorReverter(wk) ==
    [p \in 1..Len(wk) |-> <<ToU8(wk[p][1]), ToU8(wk[p][2]), ToU8(wk[p][3]), ToU8(wk[p][4])>>]

\* ---------------------------------------------------- CentroidsBuffer
\* The buffer as 32-bit words: a 4-word header, then 4 words per record.
RECURSIVE Flatten(_)
Flatten(ss) == IF ss = <<>> THEN <<>> ELSE Head(ss) \o Flatten(Tail(ss))

RecordCount(k) == k

empty_centroids(k) ==
    <<k, 0, 0, 0>> \o Flatten([i \in 1..RecordCount(k) |-> <<0, 0, 0, 0>>])

fixed_centroids(colors) ==
    <<Len(colors), 0, 0, 0>> \o
    Flatten([i \in 1..Len(colors) |->
               <<colors[i][1] * SubUnit, colors[i][2] * SubUnit, colors[i][3] * SubUnit, One>>])

HeaderK(buf) == buf[1]

\* Record k (from 0) as the kernels address it.
Centroid(buf, k) == SubSeq(buf, 4 * k + 5, 4 * k + 8)

\* chunks_exact(4): whole chunks only.
chunks_exact(words) ==
    [i \in 1..(Len(words) \div 4) |-> SubSeq(words, 4 * i - 3, 4 * i)]

\* Word offset of data[16..].
RecordsOffset == 4

\* pull_values reading the records from byte 4 instead of byte 16.
pull_values_from_4(buf) ==
    LET chunks == chunks_exact(SubSeq(buf, 2, Len(buf)))
    IN [i \in 1..Len(chunks) |->
          <<ToU8(chunks[i][1]), ToU8(chunks[i][2]), ToU8(chunks[i][3]), ToU8(One)>>]

\* The conversion of pull_values: the fourth word is not read, alpha is 1.0.
pull_values_colors(buf) ==
    LET chunks == chunks_exact(SubSeq(buf, RecordsOffset + 1, Len(buf)))
    IN [i \in 1..Len(chunks) |->
          <<ToU8(chunks[i][1]), ToU8(chunks[i][2]), ToU8(chunks[i][3]), ToU8(One)>>]

\* ------------------------------------------------------------ kernels
dist2(a, b) ==
    (a[1] - b[1]) * (a[1] - b[1]) + (a[2] - b[2]) * (a[2] - b[2]) + (a[3] - b[3]) * (a[3] - b[3])

\* The argmin of a non-empty sequence of distances, from 0; ties go to
\* the lowest index.
ArgMin(d) ==
    CHOOSE k \in 0..(Len(d) - 1) :
        /\ \A j \in 0..(Len(d) - 1) : d[k + 1] <= d[j + 1]
        /\ \A j \in 0..(k - 1) : d[j + 1] > d[k + 1]

FindCentroid(wk, buf) ==
    [p \in 1..Len(wk) |->
        ArgMin([k \in 1..HeaderK(buf) |-> dist2(wk[p], Centroid(buf, k - 1))])]

\* Swap: the working texture is bound write-only; each pixel becomes the
\* record of its index.
Swap(buf, idx) == [p \in 1..Len(idx) |-> Centroid(buf, idx[p])]

\* MixColors (dither, meld): the arithmetic of the kernel is not modelled;
\* the mixed pixel is the term of what the kernel reads.
MixColors(mix_mode, wk, idx, buf) ==
    [p \in 1..Len(wk) |->
        [mix |-> mix_mode, original |-> wk[p], assigned |-> idx[p], centroids |-> buf]]

\* ------------------------------------------------- PlusPlusInit kernels
SetCentroid(buf, k, rec) ==
    [i \in 1..Len(buf) |-> IF i >= 4 * k + 5 /\ i <= 4 * k + 8 THEN rec[i - 4 * k - 4] ELSE buf[i]]

\* calc_diff before pick k (k >= 1): the squared distance to the nearest
\* centroid chosen so far; the first pass fills the map.
calc_diff(dm, wk, buf, k) ==
    [p \in 1..Len(wk) |->
        LET d == dist2(wk[p], Centroid(buf, k - 1))
        IN IF k = 1 THEN d ELSE Min(dm[p], d)]

\* main: inclusive prefix sums of the distance map.
PrefixSums(dm) == [p \in 1..Len(dm) |-> SumSeq(SubSeq(dm, 1, p))]

\* A search for the first pixel whose inclusive prefix reaches the sample.
SearchPrefixReaching(prefix, sample) ==
    CHOOSE p \in 1..Len(prefix) :
        prefix[p] >= sample /\ \A q \in 1..(p - 1) : prefix[q] < sample

\* pick searches the prefix for a sample of [0, total): the pixel found is
\* the first whose inclusive prefix exceeds the sample.
SearchPrefix(prefix, sample) ==
    CHOOSE p \in 1..Len(prefix) :
        prefix[p] > sample /\ \A q \in 1..(p - 1) : prefix[q] <= sample

\* The pixels a draw can select.  A sample of [0, total) falls in the
\* interval of one pixel, [prefix - distance, prefix); both ends of every
\* non-empty interval are searched.  With a zero total the interval is
\* empty and the selection is whatever the device returns.
PickCandidates(dm) ==
    LET prefix == PrefixSums(dm)
        total == prefix[Len(dm)]
        samples == UNION {{prefix[p] - dm[p], prefix[p] - 1} : p \in {q \in 1..Len(dm) : dm[q] > 0}}
    IN IF total > 0
       THEN {SearchPrefix(prefix, sample) : sample \in samples}
       ELSE 1..Len(dm)

\* The picks of one command buffer, centroids k .. max_k - 1, given the
\* pixel each draw selects: [centroids, distmap, ok], ok when every pick
\* is one its draw can select.
RECURSIVE SeedBatch(_, _, _, _, _, _)
SeedBatch(buf, dm, wk, picks, k, max_k) ==
    IF k >= max_k THEN [centroids |-> buf, distmap |-> dm, ok |-> TRUE]
    ELSE IF k = 0
    THEN SeedBatch(SetCentroid(buf, 0, wk[1]), dm, wk, picks, 1, max_k)
    ELSE LET dm1 == calc_diff(dm, wk, buf, k)
             rest == SeedBatch(SetCentroid(buf, k, wk[picks[k]]), dm1, wk, picks, k + 1, max_k)
         IN [rest EXCEPT !.ok = @ /\ picks[k] \in PickCandidates(dm1)]

\* ----------------------------------------------- ChooseCentroid kernels
convergence_buffer_wide(k) == [i \in 1..(k + 2) |-> 0]

\* ChooseCentroidModule::new: the convergence buffer, vec![0; k + 1].
convergence_buffer(k) == [i \in 1..(k + 1) |-> 0]

\* ColorSpace::convergence for Rgb is 0.01: the squared displacement, in
\* units of One^2, is at most 0.0001.
Converged(d2) == d2 <= (One * One) \div 10000

\* An update that moves the centroid of an empty cluster to the origin.
choose_one_reset(buf, conv, wk, idx, k) ==
    LET count == Cardinality({p \in 1..Len(wk) : idx[p] = k})
        sum(i) == SumSeq([p \in 1..Len(wk) |-> IF idx[p] = k THEN wk[p][i] ELSE 0])
        old == Centroid(buf, k)
        new == IF count = 0 THEN <<0, 0, 0, One>>
               ELSE <<sum(1) \div count, sum(2) \div count, sum(3) \div count, One>>
        flag == IF Converged(dist2(old, new)) THEN 1 ELSE 0
        conv1 == [conv EXCEPT ![k + 1] = flag]
    IN [centroids |-> SetCentroid(buf, k, new),
        convergence |-> [conv1 EXCEPT ![Len(conv)] = SumSeq(SubSeq(conv1, 1, Len(conv) - 1))]]

\* main + pick for centroid k: the mean of the pixels assigned to k; an
\* empty cluster keeps its centroid.  Slot K is the sum of the flags.
choose_one(buf, conv, wk, idx, k) ==
    LET count == Cardinality({p \in 1..Len(wk) : idx[p] = k})
        sum(i) == SumSeq([p \in 1..Len(wk) |-> IF idx[p] = k THEN wk[p][i] ELSE 0])
        old == Centroid(buf, k)
        new == IF count = 0 THEN old
               ELSE <<sum(1) \div count, sum(2) \div count, sum(3) \div count, One>>
        flag == IF Converged(dist2(old, new)) THEN 1 ELSE 0
        conv1 == [conv EXCEPT ![k + 1] = flag]
    IN [centroids |-> SetCentroid(buf, k, new),
        convergence |-> [conv1 EXCEPT ![Len(conv)] = SumSeq(SubSeq(conv1, 1, Len(conv) - 1))]]

RECURSIVE ChoosePass(_, _, _, _, _)
ChoosePass(st, wk, idx, k, max_k) ==
    IF k >= max_k THEN st
    ELSE ChoosePass(choose_one(st.centroids, st.convergence, wk, idx, k), wk, idx, k + 1, max_k)

\* The first command buffer of an iteration: passes of at most
\* MAX_OBS_CHAIN centroids each.
RECURSIVE ChooseEncoder(_, _, _, _, _)
ChooseEncoder(st, wk, idx, k_start, k) ==
    IF k_start >= k THEN st
    ELSE ChooseEncoder(ChoosePass(st, wk, idx, k_start, Min(k_start + MAX_OBS_CHAIN, k)),
                       wk, idx, k_start + MAX_OBS_CHAIN, k)

\* ------------------------------------------------------------ read-back
padded_bytes_per_row_always(bytes_per_row) ==
    bytes_per_row + (256 - (bytes_per_row % 256))

padded_bytes_per_row(bytes_per_row) ==
    bytes_per_row + ((256 - (bytes_per_row % 256)) % 256)

\* copy_texture_to_buffer of one row of pixels, then the strip of
\* pull_image and copied_pixel: bytes back to pixels.
OutputRow(out) ==
    LET bytes == Flatten(out)
    IN bytes \o [i \in 1..(padded_bytes_per_row(Len(bytes)) - Len(bytes)) |-> 0]

\* copied_pixel collecting the pixels of a row from its far end.
copied_pixel_reversed(width, padded) ==
    LET pixels == SubSeq(padded, 1, width * 4)
    IN [p \in 1..width |-> SubSeq(pixels, 4 * (width - p) + 1, 4 * (width - p) + 4)]

copied_pixel(width, padded) ==
    LET pixels == SubSeq(padded, 1, width * 4)
    IN [p \in 1..width |-> SubSeq(pixels, 4 * p - 3, 4 * p)]

\* ------------------------------------------------------------ arguments
\* validate_k of the command line: a colour count of at least 1.
validate_k(k) == k >= 1

\* validate_k_for_dithering of the first command line: at least 2.
validate_k_for_dithering(k) == k >= 2

\* ========================================================== state machine
VARIABLES
    image, K, algo, script, userPalette,    \* the request, fixed per behaviour
    call, pc, mode, input,                  \* the running operation and its position
    work, mixed, index, centroids,          \* textures and buffers of the operation
    convergence, distmap, output,
    iteration, kStart,                      \* loop counters of the two compute()s
    seedPicks,                              \* what the device PRNG selects for each k
    nodes, leaves, cursor,                  \* the octree arena, the deque, the next pixel
    routed, foldedInto, emitted,            \* history of the tree (not program state)
    result, failedCalls,                    \* what each call returned; calls with a failed map
    subject, returned,                      \* a host function's argument and what it returned
    thread, queue, textures, staging,       \* host threads on one device: their operations, the
    maps, channels                          \*   queue, their resources, pending maps, channels

\* The host functions run outside any operation.
parV == <<thread, queue, textures, staging, maps, channels>>

hostV == <<subject, returned, parV>>

inV == <<image, K, algo, script, userPalette, hostV>>

ctlV == <<call, pc, mode, input>>

gpuV == <<work, mixed, index, centroids, convergence, distmap, output, iteration, kStart>>

octV == <<nodes, leaves, cursor, routed, foldedInto, emitted>>

resV == <<result, failedCalls>>

vars == <<inV, ctlV, gpuV, seedPicks, octV, resV>>

Images == SeqsUpTo(Colours, MaxPixels)

FindImages == SeqsUpTo(Colours, MaxPixels - 1)

Palettes == SeqsUpTo(OpaqueColours, MaxK - 1)

Calls == {"palette", "reduce", "find", "find2"}

MixModes == {"Dither", "Meld"}

Modes == {"Replace"} \cup MixModes

\* recv() of the channel a map callback sends on: Ok(Ok(())), Ok(Err(e))
\* or Err(e) when the sender is gone.
MapOutcomes == {"ok", "rejected", "disconnected"}

\* The future of the convergence map: Ok or Err.
FutureOutcomes == {"ok", "rejected"}

NoResult == [status |-> "none", value |-> <<>>]

Ok(v) == [status |-> "ok", value |-> v]

Err(e) == [status |-> "err", value |-> e]

ZeroIndex(n) == [p \in 1..n |-> 0]

ZeroTexture(n) == [p \in 1..n |-> <<0, 0, 0, 0>>]

\* No host function is being followed.
NoSubject == [kind |-> "none"]

\* No thread shares the device.
ThreadsIdle ==
    /\ thread = <<>> /\ queue = <<>> /\ textures = <<>> /\ staging = <<>>
    /\ maps = {} /\ channels = <<>>

HostIdle == subject = NoSubject /\ returned = NoSubject /\ ThreadsIdle

Init ==
    /\ HostIdle
    /\ \/ /\ script = "reduce"
          /\ image \in Images
          /\ K \in 0..MaxK
          /\ algo \in {"Kmeans", "Octree"}
          /\ userPalette = <<>>
       \/ /\ script = "find"
          /\ image \in FindImages
          /\ userPalette \in Palettes
          /\ K = Len(userPalette)
          /\ algo = "None"
    /\ call = "none" /\ pc = "idle" /\ mode = "None" /\ input = image
    /\ work = <<>> /\ mixed = <<>> /\ index = <<>> /\ centroids = <<>>
    /\ convergence = <<>> /\ distmap = <<>> /\ output = <<>>
    /\ iteration = 0 /\ kStart = 0
    /\ seedPicks = [k \in 1..(K - 1) |-> None]
    /\ nodes = <<>> /\ leaves = <<>> /\ cursor = 1
    /\ routed = <<>> /\ foldedInto = <<>> /\ emitted = <<>>
    /\ result = [c \in Calls |-> NoResult]
    /\ failedCalls = {}

\* A call returns r to its caller.
Return(r) ==
    /\ result' = [result EXCEPT ![call] = r]
    /\ pc' = "idle"

\* A call returns the error of a failed map.
ReturnMapError(outcome) ==
    /\ result' = [result EXCEPT ![call] = Err(outcome)]
    /\ failedCalls' = failedCalls \cup {call}
    /\ pc' = "idle"

\* Palette extraction starts: extract_palette_kmeans or extract_palette_octree.
BeginExtraction ==
    /\ pc' = IF algo = "Kmeans" THEN "convert" ELSE "oct_add"
    /\ nodes' = IF algo = "Octree" THEN ColorTree_new ELSE nodes
    /\ cursor' = 1
    /\ routed' = <<>> /\ foldedInto' = <<>> /\ emitted' = <<>>
    /\ leaves' = <<>>

\* palette(K, image, algo)
Palette ==
    /\ script = "reduce" /\ pc = "idle" /\ result["palette"].status = "none"
    /\ call' = "palette" /\ mode' = "None" /\ input' = image
    /\ IF validate_k(K)
       THEN BeginExtraction /\ UNCHANGED resV
       ELSE /\ result' = [result EXCEPT !["palette"] = Err("InputError")]
            /\ pc' = "idle"
            /\ UNCHANGED <<octV, failedCalls>>
    /\ UNCHANGED <<inV, gpuV, seedPicks>>

\* The argument check of reduce: the colour count option of the reduce
\* command is parsed by validate_k whatever the mode.
ReduceArguments(k, m) == validate_k(k)

\* reduce(K, image, algo, mode), called once palette has answered (a caller
\* whose palette call lost a map does not go on).
Reduce ==
    /\ script = "reduce" /\ pc = "idle"
    /\ result["palette"].status # "none" /\ result["reduce"].status = "none"
    /\ result["palette"].status = "err" => result["palette"].value = "InputError"
    /\ \E m \in Modes :
        /\ call' = "reduce" /\ mode' = m /\ input' = image
        /\ IF ReduceArguments(K, m)
           THEN BeginExtraction /\ UNCHANGED resV
           ELSE /\ result' = [result EXCEPT !["reduce"] = Err("InputError")]
                /\ pc' = "idle"
                /\ UNCHANGED <<octV, failedCalls>>
    /\ UNCHANGED <<inV, gpuV, seedPicks>>

\* find(image, palette, mode): the palette becomes the centroids.
Find ==
    /\ script = "find" /\ pc = "idle" /\ result["find"].status = "none"
    /\ \E m \in Modes : mode' = m
    /\ call' = "find" /\ input' = image
    /\ centroids' = fixed_centroids(userPalette)
    /\ pc' = "apply"
    /\ UNCHANGED <<inV, work, mixed, index, convergence, distmap, output, iteration, kStart,
                   seedPicks, octV, resV>>

\* find applied to what find returned, with the same palette.
FindAgain ==
    /\ script = "find" /\ pc = "idle" /\ mode = "Replace"
    /\ result["find"].status = "ok" /\ result["find2"].status = "none"
    /\ call' = "find2" /\ input' = result["find"].value
    /\ centroids' = fixed_centroids(userPalette)
    /\ pc' = "apply"
    /\ UNCHANGED <<inV, mode, work, mixed, index, convergence, distmap, output, iteration, kStart,
                   seedPicks, octV, resV>>

\* ------------------------------------------- extract_palette_kmeans
\* The resources of the operation and the first command buffer: ColorConverter.
ConvertSubmit ==
    /\ pc = "convert"
    /\ centroids' = empty_centroids(K)
    /\ work' = ColorConverter(input)
    /\ index' = ZeroIndex(Len(input))
    /\ distmap' = [p \in 1..Len(input) |-> 0]
    /\ convergence' = convergence_buffer(K)
    /\ kStart' = 0 /\ iteration' = 0
    /\ pc' = "seed"
    /\ UNCHANGED <<inV, call, mode, input, mixed, output, seedPicks, octV, resV>>

\* PlusPlusInitModule::compute: one command buffer of at most
\* MAX_OPERATIONS_CHAIN picks, submitted and polled.
SeedSubmit ==
    /\ pc = "seed"
    /\ LET max_k == Min(kStart + MAX_OPERATIONS_CHAIN, K)
       IN \E picks \in [1..(K - 1) -> 1..Len(input)] :
            LET batch == SeedBatch(centroids, distmap, work, picks, kStart, max_k)
            IN /\ \A k \in 1..(K - 1) : seedPicks[k] # None => picks[k] = seedPicks[k]
               /\ batch.ok
               /\ centroids' = batch.centroids
               /\ distmap' = batch.distmap
               /\ seedPicks' = picks
               /\ kStart' = max_k
               /\ pc' = IF max_k >= K THEN "find0" ELSE "seed"
    /\ UNCHANGED <<inV, call, mode, input, work, mixed, index, convergence, output, iteration,
                   octV, resV>>

\* The loop entered with no FindCentroid command buffer before it.
FindSubmitNotDispatched ==
    /\ pc = "find0"
    /\ iteration' = 0
    /\ pc' = "choose"
    /\ UNCHANGED <<inV, call, mode, input, work, mixed, index, centroids, convergence, distmap,
                   output, kStart, seedPicks, octV, resV>>

\* The FindCentroid command buffer between seeding and the Lloyd loop.
FindSubmit ==
    /\ pc = "find0"
    /\ index' = FindCentroid(work, centroids)
    /\ iteration' = 0
    /\ pc' = "choose"
    /\ UNCHANGED <<inV, call, mode, input, work, mixed, centroids, convergence, distmap, output,
                   kStart, seedPicks, octV, resV>>

\* ChooseCentroidModule::compute, first command buffer of an iteration.
ChooseSubmit ==
    /\ pc = "choose"
    /\ LET st == ChooseEncoder([centroids |-> centroids, convergence |-> convergence],
                               work, index, 0, K)
       IN /\ centroids' = st.centroids
          /\ convergence' = st.convergence
    /\ pc' = "refresh"
    /\ UNCHANGED <<inV, call, mode, input, work, mixed, index, distmap, output, iteration, kStart,
                   seedPicks, octV, resV>>

ConvergenceCheckDueFromZero(it) == it % MAX_ITERATION_BEFORE_CONVERGENCE_CHECK = 0

\* The iterations that read the convergence vector back.
ConvergenceCheckDue(it) == it > 0 /\ it % MAX_ITERATION_BEFORE_CONVERGENCE_CHECK = 0

\* What the loop does with the outcome of the convergence map: TRUE leaves
\* the loop.  A failed map leaves it as a converged vector does.
BreakIteration(outcome, convergence_data, k) ==
    IF outcome = "ok" THEN convergence_data[k + 1] >= k ELSE TRUE

\* The second command buffer with no FindCentroid dispatch recorded.
RefreshSubmitNoFind ==
    /\ pc = "refresh"
    /\ \E outcome \in FutureOutcomes :
        LET due == ConvergenceCheckDue(iteration)
            leave == due /\ BreakIteration(outcome, convergence, K)
        IN /\ ~due => outcome = "ok"
           /\ failedCalls' = IF outcome # "ok" THEN failedCalls \cup {call} ELSE failedCalls
           /\ IF leave \/ iteration + 1 >= MAX_ITERATION
              THEN pc' = "extract_pull" /\ iteration' = iteration
              ELSE pc' = "choose" /\ iteration' = iteration + 1
    /\ UNCHANGED <<inV, call, mode, input, work, mixed, index, centroids, convergence, distmap,
                   output, kStart, seedPicks, octV, result>>

\* Second command buffer of an iteration: FindCentroid, and every
\* MAX_ITERATION_BEFORE_CONVERGENCE_CHECK iterations the read-back.
RefreshSubmit ==
    /\ pc = "refresh"
    /\ index' = FindCentroid(work, centroids)
    /\ \E outcome \in FutureOutcomes :
        LET due == ConvergenceCheckDue(iteration)
            leave == due /\ BreakIteration(outcome, convergence, K)
        IN /\ ~due => outcome = "ok"
           /\ failedCalls' = IF outcome # "ok" THEN failedCalls \cup {call} ELSE failedCalls
           /\ IF leave \/ iteration + 1 >= MAX_ITERATION
              THEN pc' = "extract_pull" /\ iteration' = iteration
              ELSE pc' = "choose" /\ iteration' = iteration + 1
    /\ UNCHANGED <<inV, call, mode, input, work, mixed, centroids, convergence, distmap, output,
                   kStart, seedPicks, octV, result>>

\* The end of extract_palette_kmeans: pull_values, a sort of the colours,
\* and the buffer itself is what is returned.
ExtractPull ==
    /\ pc = "extract_pull"
    /\ \E outcome \in MapOutcomes :
        IF outcome = "ok"
        THEN /\ pc' = IF call = "palette" THEN "palette_pull" ELSE "apply"
             /\ UNCHANGED resV
        ELSE ReturnMapError(outcome)
    /\ UNCHANGED <<inV, call, mode, input, gpuV, seedPicks, octV>>

\* palette over k-means: the centroids are read back and sorted by lightness.
PaletteColors(buf) == sort_unstable_by(pull_values_colors(buf))

PalettePull ==
    /\ pc = "palette_pull"
    /\ \E outcome \in MapOutcomes :
        IF outcome = "ok"
        THEN Return(Ok(PaletteColors(centroids))) /\ UNCHANGED failedCalls
        ELSE ReturnMapError(outcome)
    /\ UNCHANGED <<inV, call, mode, input, gpuV, seedPicks, octV>>

\* ------------------------------------------- extract_palette_octree
FoldInto(f, n, parent_id) ==
    [x \in (DOMAIN f) \cup {n} |-> IF x = n THEN parent_id ELSE f[x]]

OctAdd ==
    /\ pc = "oct_add"
    /\ nodes' = add_color(nodes, input[cursor])
    /\ routed' = Append(routed, <<input[cursor], Descend(nodes, 0, input[cursor], 0).leaf>>)
    /\ cursor' = cursor + 1
    /\ pc' = IF cursor + 1 > Len(input) THEN "oct_reduce" ELSE "oct_add"
    /\ UNCHANGED <<inV, call, mode, input, gpuV, seedPicks, leaves, foldedInto, emitted, resV>>

\* reduce(color_count): the nodes that hold pixels, greatest first.
OctReduceStart ==
    /\ pc = "oct_reduce"
    /\ leaves' = CollectLeaves(nodes)
    /\ pc' = "oct_step"
    /\ UNCHANGED <<inV, call, mode, input, gpuV, seedPicks, nodes, cursor, routed, foldedInto,
                   emitted, resV>>

OctReduceStep ==
    /\ pc = "oct_step"
    /\ ReduceContinue(leaves, K)
    /\ LET st == ReduceStep(nodes, leaves)
           node_id == leaves[Len(leaves)]
       IN /\ nodes' = st.nodes
          /\ leaves' = st.leaves
          /\ foldedInto' = FoldInto(foldedInto, node_id, nodes[node_id + 1].parent)
    /\ UNCHANGED <<inV, ctlV, gpuV, seedPicks, cursor, routed, emitted, resV>>

\* The loop is over: the arena is cleared and the colours are emitted.  For
\* reduce they become the centroids.
OctReduceFinish ==
    /\ pc = "oct_step"
    /\ ~ReduceContinue(leaves, K)
    /\ emitted' = [i \in 1..Len(leaves) |-> output_color(nodes[leaves[i] + 1].accumulator)]
    /\ nodes' = <<>>
    /\ leaves' = <<>>
    /\ IF call = "palette"
       THEN Return(Ok(ReducePalette(nodes, leaves))) /\ UNCHANGED <<centroids, failedCalls>>
       ELSE /\ centroids' = fixed_centroids(ReducePalette(nodes, leaves))
            /\ pc' = "apply"
            /\ UNCHANGED resV
    /\ UNCHANGED <<inV, call, mode, input, work, mixed, index, convergence, distmap, output,
                   iteration, kStart, seedPicks, cursor, routed, foldedInto>>

\* ---------------------------------------------------------- mode paths
\* find_colors with Swap recorded ahead of FindCentroid: Swap reads the
\* index texture as it was created.
find_colors_swap_first(img, buf) ==
    LET converted == ColorConverter(img)
        swapped == Swap(buf, ZeroIndex(Len(img)))
    IN [work |-> swapped, index |-> FindCentroid(converted, buf), output |-> ColorReverter(swapped)]

\* find_colors: one command buffer with ColorConverter, FindCentroid, Swap
\* and ColorReverter, in that order.
find_colors(img, buf) ==
    LET converted == ColorConverter(img)
        idx == FindCentroid(converted, buf)
        swapped == Swap(buf, idx)
    IN [work |-> swapped, index |-> idx, output |-> ColorReverter(swapped)]

FindColorsSubmit ==
    /\ pc = "apply" /\ mode = "Replace"
    /\ LET r == find_colors(input, centroids)
       IN work' = r.work /\ index' = r.index /\ output' = r.output
    /\ pc' = "pull_image"
    /\ UNCHANGED <<inV, call, mode, input, mixed, centroids, convergence, distmap, iteration,
                   kStart, seedPicks, octV, resV>>

\* dither_colors and meld_colors, first command buffer: fresh textures and
\* ColorConverter.
MixConvertSubmit ==
    /\ pc = "apply" /\ mode \in MixModes
    /\ work' = ColorConverter(input)
    /\ index' = ZeroIndex(Len(input))
    /\ mixed' = ZeroTexture(Len(input))
    /\ pc' = "mix"
    /\ UNCHANGED <<inV, call, mode, input, centroids, convergence, distmap, output, iteration,
                   kStart, seedPicks, octV, resV>>

\* ColorReverter over a mixed texture: each channel is a term of the
\* mixed pixel.
RevertMixed(mx) ==
    [p \in 1..Len(mx) |-> [c \in 1..4 |-> [channel |-> c, of |-> mx[p]]]]

\* Second command buffer: MixColors, then ColorReverter of the mixed texture.
MixSubmit ==
    /\ pc = "mix"
    /\ mixed' = MixColors(mode, work, index, centroids)
    /\ output' = RevertMixed(MixColors(mode, work, index, centroids))
    /\ pc' = "pull_image"
    /\ UNCHANGED <<inV, call, mode, input, work, index, centroids, convergence, distmap,
                   iteration, kStart, seedPicks, octV, resV>>

\* OutputTexture::pull_image
pull_image(out) == copied_pixel(Len(out), OutputRow(out))

PullImage ==
    /\ pc = "pull_image"
    /\ \E outcome \in MapOutcomes :
        IF outcome = "ok"
        THEN Return(Ok(pull_image(output))) /\ UNCHANGED failedCalls
        ELSE ReturnMapError(outcome)
    /\ UNCHANGED <<inV, call, mode, input, gpuV, seedPicks, octV>>

Next ==
    \/ Palette \/ Reduce \/ Find \/ FindAgain
    \/ ConvertSubmit \/ SeedSubmit \/ FindSubmit \/ ChooseSubmit \/ RefreshSubmit
    \/ ExtractPull \/ PalettePull
    \/ OctAdd \/ OctReduceStart \/ OctReduceStep \/ OctReduceFinish
    \/ FindColorsSubmit \/ MixConvertSubmit \/ MixSubmit
    \/ PullImage

Spec == Init /\ [][Next]_vars

\* ======================================================= host functions
\* The operations are at rest: nothing was requested.
OperationsIdle ==
    /\ image = <<>> /\ K = 0 /\ algo = "None" /\ script = "none" /\ userPalette = <<>>
    /\ call = "none" /\ pc = "idle" /\ mode = "None" /\ input = <<>>
    /\ work = <<>> /\ mixed = <<>> /\ index = <<>> /\ centroids = <<>>
    /\ convergence = <<>> /\ distmap = <<>> /\ output = <<>>
    /\ iteration = 0 /\ kStart = 0
    /\ seedPicks = <<>>
    /\ nodes = <<>> /\ leaves = <<>> /\ cursor = 1
    /\ routed = <<>> /\ foldedInto = <<>> /\ emitted = <<>>
    /\ result = [c \in Calls |-> NoResult]
    /\ failedCalls = {}

operationsV == <<image, K, algo, script, userPalette, ctlV, gpuV, seedPicks, octV, resV>>

\* A host function returns v for the subject.
HostReturn(v) == returned' = v /\ UNCHANGED <<subject, parV, operationsV>>

\* ------------------------------------------------- padded_bytes_per_row
\* The row sizes OutputTexture::new asks about: 4 bytes per pixel of a row.
RowSubjects == {[kind |-> "row", width |-> w] : w \in 1..MaxWidth}

PaddedBytesPerRow ==
    /\ subject.kind = "row" /\ returned = NoSubject
    /\ HostReturn([kind |-> "row", padded |-> padded_bytes_per_row(subject.width * 4)])

\* ------------------------------------------------------ palette strings
\* A string is the sequence of its characters.
UpperDigits == <<"0", "1", "2", "3", "4", "5", "6", "7", "8", "9", "A", "B", "C", "D", "E", "F">>

LowerDigits == <<"0", "1", "2", "3", "4", "5", "6", "7", "8", "9", "a", "b", "c", "d", "e", "f">>

\* [0-9a-fA-F]
IsHexDigit(ch) == ch \in Range(UpperDigits) \cup Range(LowerDigits)

\* char::to_digit(16) of a hexadecimal digit.
to_digit(ch) ==
    (CHOOSE i \in 1..16 : UpperDigits[i] = ch \/ LowerDigits[i] = ch) - 1

\* str::to_uppercase, character by character.
to_uppercase(str) ==
    [i \in 1..Len(str) |->
        IF \E j \in 1..16 : LowerDigits[j] = str[i]
        THEN UpperDigits[CHOOSE j \in 1..16 : LowerDigits[j] = str[i]]
        ELSE str[i]]

\* #[0-9a-fA-F]{6} at the head of the string.
IsColourToken(str) ==
    /\ Len(str) >= 7
    /\ str[1] = "#"
    /\ \A i \in 2..7 : IsHexDigit(str[i])

\* Regex ^#[0-9a-fA-F]{6}(?:,#[0-9a-fA-F]{6})*$
RECURSIVE is_match(_)
is_match(str) ==
    /\ IsColourToken(str)
    /\ \/ Len(str) = 7
       \/ Len(str) > 7 /\ str[8] = "," /\ is_match(SubSeq(str, 9, Len(str)))

\* str::split(','): the pieces between the commas, empty ones included.
RECURSIVE split(_)
split(str) ==
    IF \E i \in 1..Len(str) : str[i] = ","
    THEN LET i == CHOOSE j \in 1..Len(str) : str[j] = "," /\ \A h \in 1..(j - 1) : str[h] # ","
         IN <<SubSeq(str, 1, i - 1)>> \o split(SubSeq(str, i + 1, Len(str)))
    ELSE <<str>>

\* u8::from_str_radix(digits, 16) of a two-character slice: an optional
\* plus sign, then hexadecimal digits.
from_str_radix(digits) ==
    IF IsHexDigit(digits[1]) /\ IsHexDigit(digits[2])
    THEN Ok(16 * to_digit(digits[1]) + to_digit(digits[2]))
    ELSE IF digits[1] = "+" /\ IsHexDigit(digits[2])
    THEN Ok(to_digit(digits[2]))
    ELSE Err("ParseIntError")

Panic == [status |-> "panic", value |-> "out of range"]

parse_color_bgr(color_string) ==
    IF Len(color_string) < 7 THEN Panic
    ELSE LET r == from_str_radix(SubSeq(color_string, 6, 7))
             g == from_str_radix(SubSeq(color_string, 4, 5))
             b == from_str_radix(SubSeq(color_string, 2, 3))
         IN IF r.status = "ok" /\ g.status = "ok" /\ b.status = "ok"
            THEN Ok(<<r.value, g.value, b.value, 255>>)
            ELSE Err("ParseIntError")

\* The closure of parse_colors for one piece: slices [1..3], [3..5], [5..7]
\* by byte offset from 0; a slice past the end panics.
parse_color(color_string) ==
    IF Len(color_string) < 7 THEN Panic
    ELSE LET r == from_str_radix(SubSeq(color_string, 2, 3))
             g == from_str_radix(SubSeq(color_string, 4, 5))
             b == from_str_radix(SubSeq(color_string, 6, 7))
         IN IF r.status = "ok" /\ g.status = "ok" /\ b.status = "ok"
            THEN Ok(<<r.value, g.value, b.value, 255>>)
            ELSE Err("ParseIntError")

\* parse_colors: every piece in order; the first failure is the result.
parse_colors(colors) ==
    LET parsed == [i \in 1..Len(split(colors)) |-> parse_color(split(colors)[i])]
        failed == {i \in 1..Len(parsed) : parsed[i].status # "ok"}
    IN IF failed = {}
       THEN Ok([i \in 1..Len(parsed) |-> parsed[i].value])
       ELSE parsed[CHOOSE i \in failed : \A j \in failed : i <= j]

\* validate_palette for an argument that names no image file.
validate_palette(str) ==
    IF is_match(str) THEN parse_colors(str) ELSE Err("InputError")

\* {:02X}
UpperHex02(v) == <<UpperDigits[(v \div 16) + 1], UpperDigits[(v % 16) + 1]>>

\* format!("#{:02X}{:02X}{:02X}", color[0], color[1], color[2])
format_color(color) ==
    <<"#">> \o UpperHex02(color[1]) \o UpperHex02(color[2]) \o UpperHex02(color[3])

\* .collect::<Vec<_>>().join(",")
RECURSIVE join(_)
join(strs) ==
    IF strs = <<>> THEN <<>>
    ELSE IF Len(strs) = 1 THEN strs[1]
    ELSE strs[1] \o <<",">> \o join(Tail(strs))

format_colors(colors) == join([i \in 1..Len(colors) |-> format_color(colors[i])])

\* The strings a palette argument is drawn from: lists of well-formed
\* colours, and the same strings damaged.
ChannelDigits == {<<"0", "0">>, <<"f", "F">>, <<"9", "a">>, <<"A", "7">>}

ColourTokens == {<<"#">> \o r \o g \o b : r, g, b \in ChannelDigits}

RECURSIVE ListsOf(_)
ListsOf(n) ==
    IF n = 1 THEN ColourTokens
    ELSE {t \o <<",">> \o l : t \in ColourTokens, l \in ListsOf(n - 1)}

WellFormed == UNION {ListsOf(n) : n \in 1..MaxList}

Damaged ==
    UNION {{Tail(t), t \o <<",">>, <<"x">> \o Tail(t), SubSeq(t, 1, 6),
            <<"#", "+">> \o SubSeq(t, 3, 7), <<"#", "g">> \o SubSeq(t, 3, 7),
            t \o <<"0">>, t \o <<",">> \o SubSeq(t, 1, 5)} : t \in ColourTokens}

PaletteSubjects == {[kind |-> "palette", text |-> str] : str \in WellFormed \cup Damaged}

\* The palette option is parsed.
ValidatePalette ==
    /\ subject.kind = "palette" /\ returned = NoSubject
    /\ HostReturn([kind |-> "parsed", palette |-> validate_palette(subject.text)])

\* parse_colors called on the string itself, as its test does.
ParseColors ==
    /\ subject.kind = "palette" /\ returned = NoSubject
    /\ HostReturn([kind |-> "parsed_unchecked", palette |-> parse_colors(subject.text)])

\* The colours are printed as the palette command prints them.
PrintPalette ==
    /\ returned.kind \in {"parsed", "parsed_unchecked"} /\ returned.palette.status = "ok"
    /\ HostReturn([kind |-> "printed", from |-> returned.kind, palette |-> returned.palette,
                   text |-> format_colors(returned.palette.value)])

\* ---------------------------------------------------------------- images
\* Byte j of pixel i of a raw buffer, so that every pixel is recognisable.
RawBytes(n) == [b \in 1..(4 * n) |-> 10 * ((b + 3) \div 4) + ((b - 1) % 4)]

\* bytemuck::cast_slice::<u8, RGBA8>: four bytes a pixel.
cast_slice(rbga) == [p \in 1..(Len(rbga) \div 4) |-> SubSeq(rbga, 4 * p - 3, 4 * p)]

\* Image::new stores both arguments as they are.
Image_new(dimensions, rgba) == [dimensions |-> dimensions, rgba |-> rgba]

\* image::copied_pixel: a vector with the capacity of the dimensions,
\* extended by every pixel of the slice.
image_copied_pixel(dimensions, rbga) == [dimensions |-> dimensions, rgba |-> <<>> \o cast_slice(rbga)]

borrowed_pixel(dimensions, rbga) == [dimensions |-> dimensions, rgba |-> cast_slice(rbga)]

\* Image::get_pixel: index x + y * W from 0; an index past the end panics.
get_pixel(img, x, y) ==
    LET idx == x + y * img.dimensions[1]
    IN IF idx < Len(img.rgba) THEN Ok(img.rgba[idx + 1]) ELSE Panic

Constructors == {"Image::new", "copied_pixel", "borrowed_pixel"}

\* Dimensions and a pixel count, given independently as the callers do.
ImageSubjects ==
    {[kind |-> "image", constructor |-> c, dimensions |-> <<w, h>>, pixels |-> n] :
        c \in Constructors, w \in 0..MaxSide, h \in 0..MaxSide, n \in 0..(MaxSide * MaxSide + 1)}

Construct ==
    /\ subject.kind = "image" /\ returned = NoSubject
    /\ HostReturn([kind |-> "image",
                   image |-> CASE subject.constructor = "Image::new" ->
                                      Image_new(subject.dimensions, cast_slice(RawBytes(subject.pixels)))
                               [] subject.constructor = "copied_pixel" ->
                                      image_copied_pixel(subject.dimensions, RawBytes(subject.pixels))
                               [] subject.constructor = "borrowed_pixel" ->
                                      borrowed_pixel(subject.dimensions, RawBytes(subject.pixels))])

GetPixel ==
    /\ returned.kind = "image"
    /\ \E x \in 0..(returned.image.dimensions[1] - 1), y \in 0..(returned.image.dimensions[2] - 1) :
        HostReturn([kind |-> "pixel", image |-> returned.image, x |-> x, y |-> y,
                    pixel |-> get_pixel(returned.image, x, y)])

\* -------------------------------------------------------- command buffers
\* A command buffer is the sequence of its compute passes, a pass the
\* sequence of the centroids it dispatches for.
\* (0..k).step_by(chain), and k_start..max_k with max_k = (k_start + chain).min(k).
PassOf(k, chain, i) ==
    LET k_start == (i - 1) * chain
        max_k == Min(k_start + chain, k)
    IN [j \in 1..(max_k - k_start) |-> k_start + j - 1]

\* PlusPlusInitModule::compute: an encoder with one pass, submitted, per
\* step of MAX_OPERATIONS_CHAIN.
plus_plus_init_submits(k) ==
    [i \in 1..((k + MAX_OPERATIONS_CHAIN - 1) \div MAX_OPERATIONS_CHAIN) |->
        <<PassOf(k, MAX_OPERATIONS_CHAIN, i)>>]

\* ChooseCentroidModule::compute, the update of one iteration: one encoder,
\* a pass per step of MAX_OBS_CHAIN, one submit.
choose_centroid_submits(k) ==
    <<[i \in 1..((k + MAX_OBS_CHAIN - 1) \div MAX_OBS_CHAIN) |-> PassOf(k, MAX_OBS_CHAIN, i)]>>

BatchSubjects ==
    {[kind |-> "batches", module |-> m, k |-> k] :
        m \in {"PlusPlusInit", "ChooseCentroid"}, k \in 1..MaxBatchK}

\* The command buffers of one compute are recorded and submitted.
SubmitBatches ==
    /\ subject.kind = "batches" /\ returned = NoSubject
    /\ HostReturn([kind |-> "submitted",
                   buffers |-> IF subject.module = "PlusPlusInit"
                               THEN plus_plus_init_submits(subject.k)
                               ELSE choose_centroid_submits(subject.k)])

\* ------------------------------------------------------ awaited read-back
Pending == [kind |-> "poll", status |-> "pending", value |-> "none"]

Ready(out) == [kind |-> "poll", status |-> "ready", value |-> out]

\* AsyncBufferView::new: a channel is created and its sender moves into the
\* callback handed to map_async; the view keeps the receiver.
AsyncBufferView_new(data) ==
    [kind |-> "future", data |-> data, callback |-> "pending", channel |-> <<>>]

FutureSubjects == {AsyncBufferView_new(data) : data \in SeqsUpTo(0..1, MaxList)}

\* The callback of map_async, run by the device with the outcome v of the
\* map: it sends v and is consumed, its sender with it.
map_callback(fut, v) ==
    IF fut.callback = "pending"
    THEN [fut EXCEPT !.callback = v,
                     !.channel = Append(@, IF v = "ok" THEN Ok("mapped") ELSE Err("BufferAsyncError"))]
    ELSE fut

\* Receiver::try_recv: a waiting message, else Disconnected when the
\* sender is gone, else Empty.
try_recv(fut) ==
    IF fut.channel # <<>> THEN Ok(Head(fut.channel))
    ELSE IF fut.callback # "pending" THEN Err("Disconnected")
    ELSE Err("Empty")

\* Future::poll of the view: the device is polled without blocking, which
\* may run the callback; then the channel is tried once.
PollFuture ==
    /\ subject.kind = "future"
    /\ returned \in {NoSubject, Pending}
    /\ \E v \in {"none", "ok", "rejected"} :
        LET fut == IF v = "none" THEN subject ELSE map_callback(subject, v)
            received == try_recv(fut)
        IN /\ subject' = [fut EXCEPT !.channel = IF @ = <<>> THEN @ ELSE Tail(@)]
           /\ returned' = IF received.status = "ok"
                           THEN IF received.value.status = "ok"
                                THEN Ready(Ok(fut.data))
                                ELSE Ready(Err(received.value.value))
                           ELSE Pending
    /\ UNCHANGED <<parV, operationsV>>

\* The device runs the callback while another caller polls it.
Callback ==
    /\ subject.kind = "future"
    /\ subject.callback = "pending"
    /\ \E v \in {"ok", "rejected"} : subject' = map_callback(subject, v)
    /\ UNCHANGED <<returned, parV, operationsV>>

\* The callback is dropped without having been called: the sender goes
\* with it and the channel is disconnected without a result.
CallbackDropped ==
    /\ subject.kind = "future"
    /\ subject.callback = "pending"
    /\ subject' = [subject EXCEPT !.callback = "dropped"]
    /\ UNCHANGED <<returned, parV, operationsV>>

\* ------------------------------------------------- the host specification
HostInit ==
    /\ OperationsIdle
    /\ subject \in RowSubjects \cup PaletteSubjects \cup ImageSubjects \cup BatchSubjects
                     \cup FutureSubjects
    /\ returned = NoSubject
    /\ ThreadsIdle

HostNext ==
    \/ PaddedBytesPerRow
    \/ ValidatePalette \/ ParseColors \/ PrintPalette
    \/ Construct \/ GetPixel
    \/ SubmitBatches
    \/ PollFuture \/ Callback \/ CallbackDropped

HostSpec == HostInit /\ [][HostNext]_vars

\* Future::poll returning Pending wakes its waker (wake_by_ref), so the
\* executor polls the view again.
AwaitSpec == HostInit /\ [][HostNext]_vars /\ WF_vars(PollFuture)

\* ================================================ the look-back scan
\* main of the seeding: one workgroup per partition of the distance map.
\* A partition stands for WORKGROUP_SIZE * N_SEQ pixels.
MaxScan == 5

PartitionSize == 2

ScanSubjects ==
    {[kind |-> "scan", distmap |-> dm] : dm \in SeqsUpTo({0, 1, 3}, MaxScan)}

\* compute_work_group_count over the pixels of the image.
dispatch_size(dm) == (Len(dm) + PartitionSize - 1) \div PartitionSize

PartitionEnd(dm, part) == Min(part * PartitionSize, Len(dm))

\* The local sum of a partition.
LocalSum(dm, part) == SumSeq(SubSeq(dm, (part - 1) * PartitionSize + 1, PartitionEnd(dm, part)))

\* The buffers PlusPlusInitModule::compute creates for main: the prefix
\* buffer (an aggregate and an inclusive prefix per partition), the flags,
\* all zero, and the partition counter; every workgroup is yet to start.
ScanStart ==
    /\ subject.kind = "scan" /\ returned = NoSubject
    /\ LET n == dispatch_size(subject.distmap)
       IN HostReturn([kind |-> "scanning", part_id |-> 0,
                      flag |-> [p \in 1..n |-> 0],
                      aggregate |-> [p \in 1..n |-> 0],
                      inclusive |-> [p \in 1..n |-> 0],
                      wg |-> [w \in 1..n |-> [pc |-> "take", part |-> 0, acc |-> 0, look |-> 0]]])

Scanning(w, pc_) ==
    /\ returned.kind = "scanning"
    /\ w \in DOMAIN returned.wg
    /\ returned.wg[w].pc = pc_

\* A workgroup takes the next partition from the counter.
TakePartition(w) ==
    /\ Scanning(w, "take")
    /\ HostReturn([returned EXCEPT !.part_id = @ + 1,
                                   !.wg[w].part = returned.part_id + 1,
                                   !.wg[w].pc = "publish"])

\* It stores the sum of its partition in the prefix buffer.
PublishAggregate(w) ==
    /\ Scanning(w, "publish")
    /\ LET part == returned.wg[w].part
       IN HostReturn([returned EXCEPT !.aggregate[part] = LocalSum(subject.distmap, part),
                                      !.wg[w].pc = "flag"])

\* It publishes the flag of its partition: aggregate available.
PublishFlag(w) ==
    /\ Scanning(w, "flag")
    /\ LET part == returned.wg[w].part
       IN HostReturn([returned EXCEPT !.flag[part] = 1,
                                      !.wg[w].look = part - 1,
                                      !.wg[w].pc = "look_back"])

\* A look back that reads the prefix buffer whatever the flag says.
LookBackUnflagged(w) ==
    /\ Scanning(w, "look_back")
    /\ LET look == returned.wg[w].look
       IN IF look = 0
          THEN HostReturn([returned EXCEPT !.wg[w].pc = "inclusive"])
          ELSE IF returned.flag[look] = 2
               THEN HostReturn([returned EXCEPT !.wg[w].acc = @ + returned.inclusive[look],
                                                !.wg[w].look = 0])
               ELSE HostReturn([returned EXCEPT !.wg[w].acc = @ + returned.aggregate[look],
                                                !.wg[w].look = look - 1])

\* It looks back over the partitions before its own: it waits for the flag
\* of a predecessor, adds the predecessor's inclusive prefix and stops, or
\* adds its aggregate and goes one further back.
LookBack(w) ==
    /\ Scanning(w, "look_back")
    /\ LET look == returned.wg[w].look
       IN IF look = 0
          THEN HostReturn([returned EXCEPT !.wg[w].pc = "inclusive"])
          ELSE /\ returned.flag[look] # 0
               /\ IF returned.flag[look] = 2
                  THEN HostReturn([returned EXCEPT !.wg[w].acc = @ + returned.inclusive[look],
                                                   !.wg[w].look = 0])
                  ELSE HostReturn([returned EXCEPT !.wg[w].acc = @ + returned.aggregate[look],
                                                   !.wg[w].look = look - 1])

\* It stores its inclusive prefix.
StoreInclusive(w) ==
    /\ Scanning(w, "inclusive")
    /\ LET part == returned.wg[w].part
       IN HostReturn([returned EXCEPT !.inclusive[part] =
                                          returned.wg[w].acc + returned.aggregate[part],
                                      !.wg[w].pc = "flag_inclusive"])

\* It publishes the flag of its partition: inclusive prefix available.
PublishInclusive(w) ==
    /\ Scanning(w, "flag_inclusive")
    /\ HostReturn([returned EXCEPT !.flag[returned.wg[w].part] = 2, !.wg[w].pc = "done"])

ScanInit ==
    /\ OperationsIdle
    /\ subject \in ScanSubjects
    /\ returned = NoSubject
    /\ ThreadsIdle

ScanNext ==
    \/ ScanStart
    \/ \E w \in 1..MaxScan :
        \/ TakePartition(w) \/ PublishAggregate(w) \/ PublishFlag(w)
        \/ LookBack(w) \/ StoreInclusive(w) \/ PublishInclusive(w)

ScanSpec == ScanInit /\ [][ScanNext]_vars

\* ===================================== the chunked ChooseCentroid loop
\* ChooseCentroidModule::compute of the first library: the passes over the
\* centroids are cut into command buffers of at most max_obs_chain
\* ChooseCentroid dispatches.
max_obs_chain == 32

max_iteration == 128

max_step_before_convergence_check == 8

MaxLoopK == 34

LoopSubjects == {[kind |-> "compute", k |-> k] : k \in 1..MaxLoopK}

RECURSIVE choose_centroid_pass(_, _, _, _)
\* for k in current_k..self.k: one ChooseCentroid dispatch per centroid,
\* left at the dispatch that fills the command buffer. A pass is complete
\* when centroid k - 1 has been dispatched.
choose_centroid_pass(e, k, step, selfk) ==
    IF k >= selfk THEN e
    ELSE LET d == [e EXCEPT !.op_count = @ + 1, !.recorded = @ + 1,
                            !.passes = IF k = selfk - 1 THEN @ + 1 ELSE @]
         IN IF d.op_count >= max_obs_chain
            THEN [d EXCEPT !.current_k = k + 1, !.current_step = step]
            ELSE choose_centroid_pass(d, k + 1, step, selfk)

RECURSIVE choose_centroid_steps(_, _, _)
\* for step in current_step..max_step_before_convergence_check, the range
\* fixed when the loop is entered.
choose_centroid_steps(e, step, selfk) ==
    IF step >= max_step_before_convergence_check THEN [e EXCEPT !.exit = "check"]
    ELSE LET a == choose_centroid_pass(e, e.current_k, step, selfk)
         IN IF a.op_count >= max_obs_chain
            THEN IF a.current_k = selfk
                 THEN LET b == [a EXCEPT !.iteration = @ + 1, !.current_step = @ + 1]
                      IN [b EXCEPT !.exit = IF b.iteration >= max_iteration
                                            THEN "break" ELSE "continue"]
                 ELSE [a EXCEPT !.exit = "continue"]
            ELSE LET c == [a EXCEPT !.current_k = 0,
                                    !.finds = @ + 1, !.recorded = @ + 1,
                                    !.iteration = @ + 1, !.current_step = @ + 1]
                 IN IF c.iteration >= max_iteration
                    THEN [c EXCEPT !.exit = "break"]
                    ELSE choose_centroid_steps(c, step + 1, selfk)

\* compute is entered: the counters of the loop.
StartCompute ==
    /\ subject.kind = "compute" /\ returned = NoSubject
    /\ HostReturn([kind |-> "loop", iteration |-> 0, op_count |-> 0, current_k |-> 0,
                   current_step |-> 0, passes |-> 0, finds |-> 0, recorded |-> 0,
                   dropped |-> 0, reads |-> 0, read_at |-> 0, exit |-> "continue"])

\* One turn of the 'iteration loop: a command encoder is filled; it is
\* submitted and the loop continued, or left behind by break 'iteration,
\* or submitted with the copy of the convergence buffer, which is read.
ComputeLoop ==
    /\ returned.kind = "loop" /\ returned.exit = "continue"
    /\ LET e == choose_centroid_steps([returned EXCEPT !.op_count = 0, !.recorded = 0],
                                      returned.current_step, subject.k)
       IN \/ /\ e.exit = "continue"
             /\ HostReturn(e)
          \/ /\ e.exit = "break"
             /\ HostReturn([e EXCEPT !.dropped = @ + e.recorded])
          \/ /\ e.exit = "check"
             /\ \E read \in {"converged", "moving", "map error"} :
                 HostReturn([e EXCEPT !.current_step = 0, !.reads = @ + 1,
                                      !.read_at = e.passes,
                                      !.exit = IF read = "moving" THEN "continue" ELSE "break"])

LoopInit ==
    /\ OperationsIdle
    /\ subject \in LoopSubjects
    /\ returned = NoSubject
    /\ ThreadsIdle

LoopNext == StartCompute \/ ComputeLoop

LoopSpec == LoopInit /\ [][LoopNext]_vars

\* ================================================== shader preprocessor
\* A shader folder: for each file the files its include lines name, in
\* line order; 0 names a file that does not exist. Paths are canonical.
MaxFiles == 3

MaxIncludes == 2

Files == 1..MaxFiles

IncludeLines == {<<>>} \cup SeqsUpTo(0..MaxFiles, MaxIncludes)

ShaderSubjects ==
    {[kind |-> "shaders", files |-> fs, wgsl_file |-> f] :
        fs \in [Files -> IncludeLines], f \in Files}

\* The calls of expanded_content that can be open at once before the
\* expansion counts as not ending.
StackLimit == MaxFiles + 2

\* A membership test that only looks at the file inflated last.
contains_last(inflated, path) == inflated # <<>> /\ inflated[Len(inflated)] = path

contains(inflated, path) == \E i \in 1..Len(inflated) : inflated[i] = path

RECURSIVE expanded_content(_, _, _, _)
RECURSIVE expand_lines(_, _, _, _, _, _)
\* The lines of wgsl_file from line i on: an include line is checked,
\* recorded in inflated and replaced by the expansion of its file; the
\* first error ends the collection. The file's own text closes it.
expand_lines(fs, wgsl_file, i, inflated, content, depth) ==
    IF i > Len(fs[wgsl_file])
    THEN [status |-> "ok", error |-> "none", inflated |-> inflated,
          content |-> Append(content, wgsl_file)]
    ELSE LET to_include == fs[wgsl_file][i]
         IN IF to_include = 0
            THEN [status |-> "err", error |-> "doesn't exist", inflated |-> inflated,
                  content |-> <<>>]
            ELSE IF contains(inflated, to_include)
            THEN [status |-> "err", error |-> "Recursion", inflated |-> inflated,
                  content |-> <<>>]
            ELSE LET inner == expanded_content(fs, to_include, Append(inflated, to_include),
                                               depth + 1)
                 IN IF inner.status # "ok" THEN inner
                    ELSE expand_lines(fs, wgsl_file, i + 1, inner.inflated,
                                      content \o inner.content, depth)

expanded_content(fs, wgsl_file, inflated, depth) ==
    IF depth > StackLimit
    THEN [status |-> "overflow", error |-> "none", inflated |-> inflated, content |-> <<>>]
    ELSE expand_lines(fs, wgsl_file, 1, inflated, <<>>, depth)

\* process_file: the expansion of a top-level file starts with nothing
\* inflated.
process_file(fs, wgsl_file) == expanded_content(fs, wgsl_file, <<>>, 1)

ProcessFile ==
    /\ subject.kind = "shaders" /\ returned = NoSubject
    /\ HostReturn([kind |-> "processed",
                   expansion |-> process_file(subject.files, subject.wgsl_file)])

PreprocessInit ==
    /\ OperationsIdle
    /\ subject \in ShaderSubjects
    /\ returned = NoSubject
    /\ ThreadsIdle

PreprocessSpec == PreprocessInit /\ [][ProcessFile]_vars

\* ============================================== threads on one device
\* Host threads share the device and its queue; each runs find in Replace
\* mode on its own image and palette, then pull_image.
Threads == 1..MaxThreads

ThreadOperations ==
    LET colours == {<<0, 0, 0, 255>>, <<10, 20, 30, 255>>, <<255, 255, 255, 255>>}
    IN {[image |-> i, palette |-> p] :
           i \in [1..2 -> colours],
           p \in {<<<<0, 0, 0, 255>>, <<255, 255, 255, 255>>>>, <<<<10, 20, 30, 255>>>>}}

bound_textures_shared(t) == Min(t, 1)

\* The textures and the staging buffer the modules of thread t are bound
\* to: find_colors and pull_image create their own in every call.
bound_textures(t) == t

ParInit ==
    /\ OperationsIdle
    /\ subject = NoSubject /\ returned = NoSubject
    /\ \E ops \in [Threads -> ThreadOperations] :
        thread = [t \in Threads |->
                     [pc |-> "find_colors", image |-> ops[t].image,
                      centroids |-> fixed_centroids(ops[t].palette), result |-> NoResult]]
    /\ queue = <<>>
    /\ textures = [t \in Threads |-> [work |-> <<>>, index |-> <<>>, output |-> <<>>]]
    /\ staging = [t \in Threads |-> <<>>]
    /\ maps = {}
    /\ channels = [t \in Threads |-> <<>>]

ThreadStep(t, from, to) ==
    /\ thread[t].pc = from
    /\ thread' = [thread EXCEPT ![t].pc = to]
    /\ UNCHANGED <<subject, returned, operationsV>>

\* find_colors: the command buffer of the four passes is submitted.
SubmitFindColors(t) ==
    /\ ThreadStep(t, "find_colors", "pull_image")
    /\ queue' = Append(queue, [pass |-> "find_colors", of |-> t, on |-> bound_textures(t)])
    /\ UNCHANGED <<textures, staging, maps, channels>>

\* A copy that the queue runs ahead of the command buffers submitted
\* before it.
SubmitCopyAhead(t) ==
    /\ ThreadStep(t, "pull_image", "map_async")
    /\ queue' = <<[pass |-> "copy", of |-> t, on |-> bound_textures(t)]>> \o queue
    /\ UNCHANGED <<textures, staging, maps, channels>>

\* pull_image: the copy of the output texture to the staging buffer is
\* submitted.
SubmitCopy(t) ==
    /\ ThreadStep(t, "pull_image", "map_async")
    /\ queue' = Append(queue, [pass |-> "copy", of |-> t, on |-> bound_textures(t)])
    /\ UNCHANGED <<textures, staging, maps, channels>>

\* map_async: the map of the staging buffer is requested; its callback
\* sends on the channel of this call.
MapAsync(t) ==
    /\ ThreadStep(t, "map_async", "poll")
    /\ maps' = maps \cup {[buffer |-> bound_textures(t), sender |-> t]}
    /\ UNCHANGED <<queue, textures, staging, channels>>

\* The device runs the command buffer at the head of the queue.
Execute ==
    /\ queue # <<>>
    /\ LET cmd == Head(queue)
       IN IF cmd.pass = "find_colors"
          THEN /\ textures' = [textures EXCEPT ![cmd.on] =
                                  find_colors(thread[cmd.of].image, thread[cmd.of].centroids)]
               /\ UNCHANGED staging
          ELSE /\ staging' = [staging EXCEPT ![cmd.on] = OutputRow(textures[cmd.on].output)]
               /\ UNCHANGED textures
    /\ queue' = Tail(queue)
    /\ UNCHANGED <<thread, maps, channels, subject, returned, operationsV>>

\* device.poll(Maintain::Wait) of thread t: returns once everything
\* submitted has run, having called the callback of every pending map,
\* whoever requested it.
Poll(t) ==
    /\ queue = <<>>
    /\ ThreadStep(t, "poll", "recv")
    /\ channels' = [u \in Threads |->
                       IF \E m \in maps : m.sender = u THEN Append(channels[u], "ok") ELSE channels[u]]
    /\ maps' = {}
    /\ UNCHANGED <<queue, textures, staging>>

\* recv, then the mapped range is stripped of its padding.
Recv(t) ==
    /\ thread[t].pc = "recv"
    /\ channels[t] # <<>>
    /\ channels' = [channels EXCEPT ![t] = Tail(@)]
    /\ thread' = [thread EXCEPT ![t].pc = "done",
                                ![t].result = Ok(copied_pixel(Len(thread[t].image), staging[bound_textures(t)]))]
    /\ UNCHANGED <<queue, textures, staging, maps, subject, returned, operationsV>>

ParNext ==
    \/ \E t \in Threads :
        SubmitFindColors(t) \/ SubmitCopy(t) \/ MapAsync(t) \/ Poll(t) \/ Recv(t)
    \/ Execute

SpecPar == ParInit /\ [][ParNext]_vars

\* ================================================================ claims
RGB(c) == <<c[1], c[2], c[3]>>

DistinctRGB(img) == Cardinality({RGB(img[p]) : p \in 1..Len(img)})

IsOk(c) == result[c].status = "ok"

\* Both calls of the reduce script returned images and colours.
ReplaceDone == script = "reduce" /\ mode = "Replace" /\ IsOk("palette") /\ IsOk("reduce")

RgbDistance(a, b) ==
    (a[1] - b[1]) * (a[1] - b[1]) + (a[2] - b[2]) * (a[2] - b[2]) + (a[3] - b[3]) * (a[3] - b[3])

\* Entry i of pal is the nearest to c, and the first of the nearest.
NearestIn(c, pal, i) ==
    /\ \A j \in 1..Len(pal) : RgbDistance(c, pal[i]) <= RgbDistance(c, pal[j])
    /\ \A j \in 1..(i - 1) : RgbDistance(c, pal[j]) > RgbDistance(c, pal[i])

\* Record i (from 0) of the buffer is the nearest to working pixel w, and
\* the first of the nearest; the fourth component is not looked at.
NearestRecord(w, buf, i) ==
    /\ i \in 0..(HeaderK(buf) - 1)
    /\ \A k \in 0..(HeaderK(buf) - 1) :
          /\ RgbDistance(w, Centroid(buf, i)) <= RgbDistance(w, Centroid(buf, k))
          /\ k < i => RgbDistance(w, Centroid(buf, k)) > RgbDistance(w, Centroid(buf, i))

\* C2 (nearest colour): each pixel is assigned the palette entry at the
\* least squared distance over the three colour channels, the lowest index
\* on a tie, and alpha plays no part: in the index texture after every
\* FindCentroid pass, and in the image find returns in Replace mode (for
\* the pixel [10,20,30,255] and the palette black, white it is black).
C2_NearestColour ==
    /\ pc \in {"choose", "extract_pull"} =>
          \A p \in 1..Len(work) : NearestRecord(work[p], centroids, index[p])
    /\ (pc = "pull_image" /\ mode = "Replace") =>
          \A p \in 1..Len(input) :
              /\ NearestRecord(ColorConverter(input)[p], centroids, index[p])
              /\ RGB(output[p]) = RGB(ColorReverter(<<Centroid(centroids, index[p])>>)[1])
    /\ (script = "find" /\ mode = "Replace" /\ IsOk("find")) =>
          \A p \in 1..Len(image) :
              \E i \in 1..Len(userPalette) :
                  /\ NearestIn(image[p], userPalette, i)
                  /\ result["find"].value[p] = userPalette[i]

\* The example of the claim, next to a translucent white pixel.
C2_Witness ==
    /\ script = "find" /\ mode = "Replace" /\ IsOk("find")
    /\ image = << <<10, 20, 30, 255>>, <<255, 255, 255, 128>> >>
    /\ userPalette = << <<0, 0, 0, 255>>, <<255, 255, 255, 255>> >>
    /\ result["find"].value = << <<0, 0, 0, 255>>, <<255, 255, 255, 255>> >>

\* C3 (idempotence): find applied in Replace mode to the image find
\* returned, with the same palette, returns that image again.
C3_FindIdempotent ==
    IsOk("find2") => result["find2"].value = result["find"].value

\* The second call has returned for an image the first call changed in
\* every pixel, into two different palette colours.
C3_Witness ==
    /\ IsOk("find2") /\ Len(image) = 2
    /\ \A p \in 1..2 : RGB(result["find"].value[p]) # RGB(image[p])
    /\ result["find"].value[1] # result["find"].value[2]

\* C4 (cardinality): the palette returned for K colours has at most K
\* colours, with k-means and with the octree.
C4_PaletteCardinality ==
    IsOk("palette") => Len(result["palette"].value) <= K

\* An octree palette of exactly K = 2 colours out of three different
\* pixels: nodes were folded to get there.
C4_Witness ==
    /\ IsOk("palette") /\ algo = "Octree" /\ K = 2
    /\ DistinctRGB(image) = 3
    /\ Len(result["palette"].value) = 2

\* C5 (palette ordering): the palette returned by palette(K, I, algo) is
\* sorted in non-decreasing Lab lightness and holds no colour twice.
C5_PaletteOrdering ==
    IsOk("palette") =>
        LET pal == result["palette"].value
        IN /\ \A i \in 1..(Len(pal) - 1) : lab_l(pal[i]) <= lab_l(pal[i + 1])
           /\ \A i, j \in 1..Len(pal) : i # j => pal[i] # pal[j]

\* What holds of the two orderings: k-means palettes are in lightness
\* order, octree palettes in the order of their bytes and without repeats.
PaletteOrderings ==
    IsOk("palette") =>
        LET pal == result["palette"].value
        IN IF algo = "Kmeans"
           THEN \A i \in 1..(Len(pal) - 1) : lab_l(pal[i]) <= lab_l(pal[i + 1])
           ELSE \A i \in 1..(Len(pal) - 1) : LexLess(pal[i], pal[i + 1])

\* The reduce call of a k-means Replace run has returned for an image of
\* exactly K colours, K of them different in red, green and blue too.
ExactlyKColours ==
    /\ script = "reduce" /\ algo = "Kmeans" /\ mode = "Replace" /\ IsOk("reduce")
    /\ Cardinality(Range(image)) = K /\ DistinctRGB(image) = K

\* C6 (K colours, K clusters): when the image holds exactly K distinct
\* colours, reduce(K, image, Kmeans, Replace) returns the input image.
C6_ExactColoursKept ==
    ExactlyKColours => result["reduce"].value = image

\* What holds instead: the red, green and blue of every pixel are kept and
\* every pixel comes back opaque.
ExactColoursKeptOpaque ==
    ExactlyKColours =>
        \A p \in 1..Len(image) :
            result["reduce"].value[p] = <<image[p][1], image[p][2], image[p][3], 255>>

\* Seeding has picked K records, pairwise different, for such an image.
SeedsDistinct ==
    (pc = "find0" /\ DistinctRGB(input) = K) =>
        \A i, j \in 0..(K - 1) : i # j => Centroid(centroids, i) # Centroid(centroids, j)

\* The octree palette call has returned for an image of at least K colours
\* different in red, green and blue.
OctreeOfEnough ==
    /\ algo = "Octree" /\ call = "palette" /\ IsOk("palette")
    /\ DistinctRGB(image) >= K

\* C7 as stated (octree reduction reaches the requested size): after N >= K
\* distinct colours were added, reduce(K) returns exactly K colours.
C7_ExactlyK ==
    OctreeOfEnough => Len(result["palette"].value) = K

\* C7 as it holds: after N >= K colours distinct in red, green and blue
\* were added, the loop of reduce(K) ends on exactly K nodes, and the
\* palette is their averaged colours without repeats: at most K colours,
\* K of them exactly when the K averages are pairwise different.
C7_ReachesSize ==
    /\ (pc = "oct_step" /\ ~ReduceContinue(leaves, K) /\ DistinctRGB(input) >= K) =>
          Len(leaves) = K
    /\ OctreeOfEnough =>
          /\ Len(emitted) = K
          /\ Range(result["palette"].value) = Range(emitted)
          /\ Len(result["palette"].value) = Cardinality(Range(emitted))

\* Three colours folded down to two nodes with two different averages.
C7_Witness ==
    /\ OctreeOfEnough /\ K = 2 /\ DistinctRGB(image) = 3
    /\ Cardinality(Range(emitted)) = 2
    /\ Len(result["palette"].value) = 2

\* The accumulator of a sequence of routed pixels <<colour, leaf>>.
RECURSIVE RoutedSum(_)
RoutedSum(rs) ==
    IF rs = <<>> THEN ColorAccumulator_new
    ELSE AccAddColor(RoutedSum(Tail(rs)), Head(rs)[1])

\* Node n is on the way a leaf's pixels have been folded: the leaf, the
\* node it was folded into, the node that one was folded into, ...
RECURSIVE FoldedThrough(_, _)
FoldedThrough(leaf, n) ==
    \/ leaf = n
    \/ leaf \in DOMAIN foldedInto /\ foldedInto[leaf] # None /\ FoldedThrough(foldedInto[leaf], n)

\* The accumulators of the leaves of the arena below node i.
RECURSIVE LeavesBelow(_, _)
LeavesBelow(ns, i) ==
    LET kids == {ns[i + 1].children[c] : c \in 1..8} \ {None}
        f[S \in SUBSET kids] ==
            IF S = {} THEN ColorAccumulator_new
            ELSE LET k == CHOOSE x \in S : TRUE
                 IN AccAdd(f[S \ {k}],
                           IF ns[k + 1].child_count = 0 THEN ns[k + 1].accumulator
                           ELSE LeavesBelow(ns, k))
    IN f[kids]

RoutedTo(n) == SelectSeq(routed, LAMBDA r : r[2] = n)

\* C8 as stated (octree accumulators): after any add_color calls and any
\* reduction steps, every internal node's accumulator is the sum of the
\* accumulators below it, and every leaf's count is the number of pixels
\* routed to it and is positive.
C8_SubtreeSums ==
    \A i \in 0..(Len(nodes) - 1) :
        IF nodes[i + 1].child_count > 0
        THEN nodes[i + 1].accumulator = LeavesBelow(nodes, i)
        ELSE i # 0 =>
                /\ nodes[i + 1].accumulator.pixel_count = Len(RoutedTo(i))
                /\ nodes[i + 1].accumulator.pixel_count > 0

\* C8 as it holds: add_color accumulates in the depth-8 leaf alone, and a
\* reduction step adds a node's accumulator to its parent.  Every node's
\* accumulator is the sum of the pixels routed to the leaves folded into
\* it, directly or through folded nodes; a depth-8 leaf's is the sum of
\* the pixels routed to it, with a positive count; an internal node
\* nothing was folded into holds zero whatever lies below it.
C8_FoldedSums ==
    \A i \in 0..(Len(nodes) - 1) :
        /\ nodes[i + 1].accumulator =
              RoutedSum(SelectSeq(routed, LAMBDA r : FoldedThrough(r[2], i)))
        /\ nodes[i + 1].level = MAX_DEPTH - 1 /\ i # 0 =>
              /\ nodes[i + 1].accumulator = RoutedSum(RoutedTo(i))
              /\ nodes[i + 1].accumulator.pixel_count > 0
        /\ (i \notin Range(foldedInto) /\ nodes[i + 1].level < MAX_DEPTH - 1) =>
              nodes[i + 1].accumulator = ColorAccumulator_new

\* Two leaves have been folded into one node that now counts two pixels,
\* while the root, with a child left, still holds nothing.
C8_Witness ==
    /\ pc = "oct_step" /\ Len(routed) = 3
    /\ \E i \in 1..(Len(nodes) - 1) :
          /\ nodes[i + 1].accumulator.pixel_count = 2
          /\ Cardinality({n \in DOMAIN foldedInto : foldedInto[n] = i}) = 2
    /\ nodes[1].child_count > 0 /\ nodes[1].accumulator.pixel_count = 0

\* C9 (mixing needs two colours): reduce in Dither or Meld mode with K = 1
\* is rejected with an input error before any palette extraction, and
\* K = 1 is accepted in Replace mode.
C9_MixNeedsTwo ==
    /\ (call = "reduce" /\ mode \in MixModes /\ ~validate_k_for_dithering(K)) =>
          pc = "idle" /\ result["reduce"] = Err("InputError")
    /\ (call = "reduce" /\ mode = "Replace" /\ K = 1) =>
          result["reduce"] # Err("InputError")

\* C10 (map failures are surfaced): a call during which a buffer map failed
\* (convergence check, pull_values, pull_image) returns an error, never a
\* normal result.
C10_MapFailureSurfaced ==
    \A c \in failedCalls : result[c].status # "ok"

\* C14: for every unpadded row size n = 4 * W, padded_bytes_per_row(n) is
\* the smallest multiple of 256 that is at least n: a multiple of 256, at
\* least n, less than n + 256; 520 gives 768.
C14_PaddedBytesPerRow ==
    (subject.kind = "row" /\ returned # NoSubject) =>
        LET n == subject.width * 4
        IN /\ returned.padded % 256 = 0
           /\ returned.padded >= n
           /\ returned.padded < n + 256
           /\ \A m \in n..(returned.padded - 1) : m % 256 # 0
           /\ (n = 520 => returned.padded = 768)

\* A row of 130 pixels (520 bytes) was padded, and so was a row that is a
\* multiple of 256 bytes already.
C14_Witness ==
    /\ subject.kind = "row" /\ returned # NoSubject
    /\ subject.width \in {64, 130}

\* C15: for every string accepted as a list of #RRGGBB colours, formatting
\* the parsed colours gives the string upper-cased; every parsed colour has
\* alpha 255, and the colours keep the order of the list.
C15_HexRoundTrip ==
    (returned.kind = "printed" /\ returned.from = "parsed") =>
        /\ returned.text = to_uppercase(subject.text)
        /\ Len(returned.palette.value) = Len(split(subject.text))
        /\ \A i \in 1..Len(returned.palette.value) :
            /\ returned.palette.value[i][4] = 255
            /\ format_color(returned.palette.value[i]) = to_uppercase(split(subject.text)[i])

\* A list of two different colours with lower-case digits was parsed and
\* printed.
C15_Witness ==
    /\ returned.kind = "printed" /\ returned.from = "parsed"
    /\ Len(returned.palette.value) = 2
    /\ returned.palette.value[1] # returned.palette.value[2]
    /\ returned.text # subject.text

\* C16: every Image value, whichever constructor produced it, holds exactly
\* W * H pixels, so that get_pixel(x, y) with x < W and y < H is in range
\* and addresses column x of row y.
C16_ImageSize ==
    /\ returned.kind = "image" =>
        Len(returned.image.rgba) = returned.image.dimensions[1] * returned.image.dimensions[2]
    /\ returned.kind = "pixel" =>
        /\ returned.pixel.status = "ok"
        /\ returned.pixel.value =
              returned.image.rgba[returned.x + returned.y * returned.image.dimensions[1] + 1]

\* What the constructors do guarantee: an image built from W * H pixels
\* answers every get_pixel in range with the pixel of column x of row y.
ImageOfRightSize ==
    (/\ returned.kind = "pixel"
     /\ subject.pixels = subject.dimensions[1] * subject.dimensions[2]) =>
        /\ returned.pixel.status = "ok"
        /\ returned.pixel.value[1] = 10 * (returned.x + returned.y * subject.dimensions[1] + 1)

ConvergenceVectorEveryPass ==
    pc = "refresh" =>
        convergence[K + 1] = Cardinality({i \in 1..K : convergence[i] = 1})

\* C17: in every operation, each dispatch that reads the index texture
\* (ChooseCentroid, Swap, MixColors) comes after a FindCentroid dispatch
\* that wrote that texture against the operation's centroids: what a reader
\* finds in the texture is the assignment FindCentroid computes.
C17_IndexWrittenBeforeRead ==
    [][(pc \in {"choose", "mix"} /\ pc' # pc) => index = FindCentroid(work, centroids)]_vars

\* The part that holds: the ChooseCentroid updates and the Swap of
\* find_colors read an index texture that FindCentroid wrote.
IndexWrittenBeforeChoose ==
    [][/\ (pc = "choose" /\ pc' # pc) => index = FindCentroid(work, centroids)
       /\ (pc = "apply" /\ pc' = "pull_image") =>
              /\ index' = FindCentroid(ColorConverter(input), centroids)
              /\ work' = Swap(centroids, index')]_vars

\* MixColors reads the index texture as it was created.
MixReadsFreshIndex ==
    [][(pc = "mix" /\ pc' # pc) => index = ZeroIndex(Len(input))]_vars

\* C18: in palette(K, image, Kmeans) the ColorConverter pass is submitted
\* first, all K seeding steps have executed before the first FindCentroid
\* dispatch, that FindCentroid precedes the first ChooseCentroid update, and
\* pull_values reads the centroids only after the loop has finished.
C18_PipelineOrder ==
    [][/\ (pc' = "seed" /\ pc # "seed") => (pc = "convert" /\ work' = ColorConverter(input))
       /\ (pc' = "find0" /\ pc # "find0") => (pc = "seed" /\ kStart' = K)
       /\ (pc = "find0" /\ pc' # pc) =>
              /\ \A k \in 0..(K - 1) : Centroid(centroids, k) \in Range(work)
              /\ pc' = "choose" /\ iteration' = 0
       /\ (pc = "choose" /\ pc' # pc /\ iteration = 0) => index = FindCentroid(work, centroids)
       /\ (pc' = "extract_pull" /\ pc # pc') =>
              /\ pc = "refresh"
              /\ iteration + 1 >= MAX_ITERATION \/ ConvergenceCheckDue(iteration)
       /\ (pc' = "palette_pull" /\ pc # pc') => pc = "extract_pull"]_vars

\* palette over k-means with three centroids has come to its last read.
C18_Witness ==
    /\ call = "palette" /\ algo = "Kmeans" /\ K = MaxK
    /\ pc = "palette_pull"
    /\ iteration > 0

CentroidsIn(buffer) == SumSeq([i \in 1..Len(buffer) |-> Len(buffer[i])])

\* C20: for every K, each command buffer submitted by PlusPlusInit holds
\* the pick of at most 32 centroids and each command buffer submitted by
\* the ChooseCentroid loop holds the update of at most 64 centroids.
C20_BatchLimits ==
    returned.kind = "submitted" =>
        \A b \in 1..Len(returned.buffers) :
            CentroidsIn(returned.buffers[b]) <=
                (IF subject.module = "PlusPlusInit" THEN MAX_OPERATIONS_CHAIN ELSE MAX_OBS_CHAIN)

\* What the limits bound: every compute pass, and every command buffer of
\* PlusPlusInit; every centroid is dispatched for once, in order.
BatchLimitsPerPass ==
    returned.kind = "submitted" =>
        LET limit == IF subject.module = "PlusPlusInit" THEN MAX_OPERATIONS_CHAIN ELSE MAX_OBS_CHAIN
            passes == UNION {{<<b, i>> : i \in 1..Len(returned.buffers[b])} : b \in 1..Len(returned.buffers)}
        IN /\ \A bi \in passes : Len(returned.buffers[bi[1]][bi[2]]) \in 1..limit
           /\ subject.module = "PlusPlusInit" =>
                  \A b \in 1..Len(returned.buffers) : CentroidsIn(returned.buffers[b]) <= limit
           /\ SumSeq([b \in 1..Len(returned.buffers) |-> CentroidsIn(returned.buffers[b])]) = subject.k
           /\ \A bi \in passes : \A j \in 1..Len(returned.buffers[bi[1]][bi[2]]) :
                  returned.buffers[bi[1]][bi[2]][j] =
                      (IF subject.module = "PlusPlusInit" THEN bi[1] - 1 ELSE bi[2] - 1) * limit + j - 1

\* C11: two operations run from different host threads on one device, each
\* with its own textures and buffers: under every interleaving of their
\* submits, polls and map callbacks each returns what it returns alone.
C11_NonInterference ==
    \A t \in DOMAIN thread :
        /\ thread[t].pc = "done" =>
               thread[t].result = Ok(pull_image(find_colors(thread[t].image, thread[t].centroids).output))
        /\ thread[t].pc = "recv" /\ channels[t] # <<>> =>
               staging[t] = OutputRow(find_colors(thread[t].image, thread[t].centroids).output)

\* Both threads are done with different results, and the callback of the
\* first was called by the poll of the second.
C11_Witness ==
    /\ thread # <<>>
    /\ \A t \in Threads : thread[t].pc = "done"
    /\ thread[1].result # thread[2].result

\* A poll of one thread called the callback of another thread's map.
CallbackFromOtherPoll ==
    /\ thread # <<>>
    /\ thread[1].pc = "poll" /\ channels[1] # <<>>

\* The pixel is assigned to the nearest record, the lowest index on a tie.
AssignedToNearest(wk, buf, idx) ==
    \A p \in 1..Len(wk) :
        /\ idx[p] \in 0..(HeaderK(buf) - 1)
        /\ \A k \in 0..(HeaderK(buf) - 1) :
            /\ dist2(wk[p], Centroid(buf, idx[p])) <= dist2(wk[p], Centroid(buf, k))
            /\ k < idx[p] => dist2(wk[p], Centroid(buf, k)) > dist2(wk[p], Centroid(buf, idx[p]))

ReturnedOnConvergence ==
    /\ pc = "extract_pull" /\ K = MaxK
    /\ call \notin failedCalls
    /\ convergence[K + 1] >= K

\* The squared distance of pixel p to the nearest of centroids 0..k-1.
NearestChosen(p, k) ==
    LET d == {dist2(work[p], Centroid(centroids, j)) : j \in 0..(k - 1)}
    IN CHOOSE x \in d : \A y \in d : x <= y

C25_EmptyCluster ==
    [][(pc = "choose" /\ pc' # pc) =>
          \A k \in 0..(K - 1) :
              (\A p \in 1..Len(index) : index[p] # k) =>
                  /\ Centroid(centroids', k) = Centroid(centroids, k)
                  /\ convergence'[k + 1] = 1]_vars

\* An update has run in which a centroid away from the origin had no pixel.
C25_Witness ==
    /\ pc = "refresh"
    /\ \E k \in 0..(K - 1) :
        /\ \A p \in 1..Len(index) : index[p] # k
        /\ Centroid(centroids, k) # <<0, 0, 0, One>>
        /\ convergence[k + 1] = 1

\* C26: at every reduction step the node popped is the least node of the
\* ordering under the comparator (fewer children, then smaller
\* count >> depth, then smaller node id), and after the parent is relinked
\* the ordering is sorted under that comparator again.
C26_ReductionOrder ==
    (pc = "oct_step") =>
        /\ \A i \in 1..Len(leaves) :
              NodeCmp(nodes[leaves[Len(leaves)] + 1], nodes[leaves[i] + 1]) <= 0
        /\ \A i \in 1..(Len(leaves) - 1) :
              NodeCmp(nodes[leaves[i] + 1], nodes[leaves[i + 1] + 1]) = 1

\* A parent was relinked in the middle of an ordering of three nodes.
C26_Witness ==
    /\ pc = "oct_step" /\ Len(leaves) = 3
    /\ leaves[2] \in Range(foldedInto)

\* C27: for K >= 1, after every reduction step and at the end of
\* reduce(K), the counts of the nodes in the ordering sum to the number of
\* add_color calls and their channel sums to those of the inserted colours;
\* no node is dropped without being folded into a parent, and every node
\* that emits a colour has count > 0.
C27_PixelsConserved ==
    (pc = "oct_step" /\ K >= 1) =>
        LET acc(i) == nodes[leaves[i] + 1].accumulator
        IN /\ SumSeq([i \in 1..Len(leaves) |-> acc(i).pixel_count]) = Len(input)
           /\ SumSeq([i \in 1..Len(leaves) |-> acc(i).r]) = SumSeq([p \in 1..Len(input) |-> input[p][1]])
           /\ SumSeq([i \in 1..Len(leaves) |-> acc(i).g]) = SumSeq([p \in 1..Len(input) |-> input[p][2]])
           /\ SumSeq([i \in 1..Len(leaves) |-> acc(i).b]) = SumSeq([p \in 1..Len(input) |-> input[p][3]])
           /\ \A i \in 1..Len(leaves) : acc(i).pixel_count > 0
           /\ \A n \in DOMAIN foldedInto : foldedInto[n] # None

\* The loop is at its end after two nodes were folded.
C27_Witness ==
    /\ pc = "oct_step" /\ K >= 1
    /\ ~ReduceContinue(leaves, K)
    /\ Cardinality(DOMAIN foldedInto) >= 2

C28_AlwaysResolves ==
    (subject.kind = "future" /\ subject.callback # "pending")
        ~> (subject.kind = "future"
            /\ returned \in {Ready(Ok(subject.data)), Ready(Err("BufferAsyncError")),
                             Ready(Err("Disconnected"))})

\* The view resolves with the mapped data after a reported success and with
\* the error after a reported rejection.
ResolvesAfterResult ==
    /\ (subject.kind = "future" /\ subject.callback = "ok")
           ~> (subject.kind = "future" /\ returned = Ready(Ok(subject.data)))
    /\ (subject.kind = "future" /\ subject.callback = "rejected")
           ~> (subject.kind = "future" /\ returned = Ready(Err("BufferAsyncError")))

\* A view was polled after its channel was disconnected without a result.
PolledWhenDisconnected ==
    /\ subject.kind = "future"
    /\ subject.callback = "dropped"
    /\ returned = Pending

\* The include lines of the top-level file and of every inflated file.
References(sub, expansion) ==
    Len(sub.files[sub.wgsl_file])
        + SumSeq([i \in 1..Len(expansion.inflated) |-> Len(sub.files[expansion.inflated[i]])])

\* C30: expanding a top-level shader file ends, inlining each included file
\* at most once; a second reference to an inlined file, closing a cycle or
\* repeating an include reached by another path, ends the expansion with an
\* error instead of another recursion.
C30_ExpansionTerminates ==
    (returned.kind = "processed") =>
        LET expansion == returned.expansion
        IN /\ expansion.status \in {"ok", "err"}
           /\ Len(expansion.inflated) <= MaxFiles
           /\ \A i, j \in 1..Len(expansion.inflated) :
                  i # j => expansion.inflated[i] # expansion.inflated[j]
           /\ expansion.status = "ok" =>
                  /\ References(subject, expansion) = Len(expansion.inflated)
                  /\ ~contains(expansion.inflated, subject.wgsl_file)
                  /\ \A f \in Files :
                         Cardinality({i \in 1..Len(expansion.content) : expansion.content[i] = f})
                             = IF f = subject.wgsl_file \/ contains(expansion.inflated, f)
                               THEN 1 ELSE 0
           /\ (\E i, j \in 1..Len(subject.files[subject.wgsl_file]) :
                  /\ i < j
                  /\ subject.files[subject.wgsl_file][i] = subject.files[subject.wgsl_file][j])
                  => expansion.status = "err"

\* An include cycle through the top-level file ended the expansion after
\* every file was inlined once.
C30_Witness ==
    /\ returned.kind = "processed"
    /\ returned.expansion.status = "err" /\ returned.expansion.error = "Recursion"
    /\ Len(returned.expansion.inflated) = MaxFiles
    /\ contains(returned.expansion.inflated, subject.wgsl_file)

\* A file included by two files ended the expansion at its second include.
RepeatedByAnotherPath ==
    /\ returned.kind = "processed"
    /\ returned.expansion.status = "err" /\ returned.expansion.error = "Recursion"
    /\ ~contains(returned.expansion.inflated, subject.wgsl_file)
    /\ \A f \in Files : \A i, j \in 1..Len(subject.files[f]) :
           i # j => subject.files[f][i] # subject.files[f][j]

\* C29: in the chunked ChooseCentroid loop, for every K, the iteration
\* counter counts the completed passes over centroids 0..K-1, every
\* completed pass is followed by its FindCentroid dispatch (at the latest
\* in the next command buffer, and before the loop ends), every encoder
\* that recorded dispatches is submitted, and the
\* convergence buffer is read after every 8 passes, up to 128 passes.
C29_ChunkedCounting ==
    (returned.kind = "loop") =>
        /\ returned.iteration = returned.passes
        /\ returned.passes - returned.finds \in {0, 1}
        /\ returned.exit = "break" => returned.finds = returned.passes
        /\ returned.dropped = 0
        /\ returned.read_at = max_step_before_convergence_check * returned.reads
        /\ returned.passes <= max_iteration

\* The loop counts a pass it did not make: the command buffer was full at
\* the last centroid of a pass.
CountedWithoutPass ==
    /\ returned.kind = "loop"
    /\ returned.iteration > returned.passes

\* The loop ends at the iteration limit leaving recorded dispatches in an
\* encoder that is never submitted.
EncoderLeftBehind ==
    /\ returned.kind = "loop"
    /\ returned.exit = "break"
    /\ returned.dropped > 0

\* The sum of the distance map over partitions from..to.
PartitionsSum(from, to) ==
    SumSeq([i \in 1..(to - from + 1) |-> LocalSum(subject.distmap, from + i - 1)])

====
